---- MODULE Spec2Model ----
(***************************************************************************)
(* Model of the provider adapter layer of the ATS integration service:     *)
(*   - HTTPClient._make_request and its retry decorator (http_client.py),  *)
(*   - the error taxonomy and format_error_response (errors.py),           *)
(*   - PaginationHandler.paginate / _get_next_page_url / _parse_url_params *)
(*     and paginate_with_offset (pagination.py),                           *)
(*   - _normalize_job of the three adapters,                               *)
(*   - GreenhouseAdapter._determine_application_status,                    *)
(*   - create_candidate, health_check and the Zoho token refresh of the    *)
(*     adapters (greenhouse.py, workable.py, zoho_recruit.py),             *)
(*   - the adapter registry (factory.py) and the applications and          *)
(*     candidates request handlers,                                        *)
(*   - the candidates handler run on the adapters, request by request,     *)
(*   - _extract_first_name / _extract_last_name of Greenhouse and Zoho,    *)
(*   - one ZohoRecruitAdapter instance used by concurrent callers.         *)
(* Each component has its own specification over the shared variables; the *)
(* variables of the other components stay at their idle values.            *)
(***************************************************************************)
EXTENDS Integers, Sequences, FiniteSets, TLC

VARIABLES
    \* ---- Transport (HTTPClient._make_request, one call) ----
    http_pc,          \* "idle" | "attempting" | "done" | "responded"
    request,          \* the call's arguments (method)
    attempt_number,   \* attempts of the current call made so far
    attempts,         \* per attempt: the exchange and what the function body did
    outcome,          \* what the decorated call gave its caller
    handler_response, \* what the request handler returned
    \* ---- PaginationHandler.paginate (one call) ----
    pg_pc,            \* "init" | "loop" | "done" | "raised"
    initial_params,   \* the caller's initial_params
    max_pages,        \* self.max_pages
    page_size,        \* self.page_size
    params,           \* params of the next fetch
    all_items,        \* accumulated items
    page_count,
    next_url,
    warned,           \* the max-page warning was logged
    fetch_calls,      \* the params each fetch_func call received
    pages,            \* the pages fetch_func returned
    pg_result,        \* the returned list
    pg_error,         \* the exception paginate raised
    \* ---- paginate_with_offset (one call) ----
    off_pc,           \* "init" | "loop" | "done"
    off_page_size,
    max_items,
    offset,
    off_items,
    off_calls,        \* the (offset, limit, accumulated) of each fetch_func call
    off_pages,        \* what each fetch_func call returned: (number of items, total)
    off_result,
    \* ---- _normalize_job (one call) ----
    nj_pc,            \* "init" | "done"
    provider,
    raw_job,
    job,
    \* ---- GreenhouseAdapter._determine_application_status (one call) ----
    na_pc,            \* "init" | "done"
    raw_app,
    application_status,
    \* ---- An adapter instance and the operations called on it ----
    ad_pc,            \* "ready" | "call" | "second_call"
    ad_provider,
    access_token,     \* ZohoRecruitAdapter.access_token
    token_expiry,     \* ZohoRecruitAdapter.token_expiry
    session_auth,     \* client.session.headers["Authorization"]
    clock,            \* time.time()
    ticks,
    ops_done,
    last_op,          \* the operation in progress, or the last one
    \* ---- The adapter registry and the request handlers ----
    registry,         \* ADAPTER_REGISTRY
    ats_provider_env, \* the environment's ATS_PROVIDER
    registrations,    \* the register_adapter calls, in order
    constructed,      \* the adapter classes instantiated, in order
    requests_done,
    last_request,     \* the last get_adapter call or handled request
    \* ---- A candidates request handled end to end ----
    prev_report,      \* the request handled before the last one
    last_report,      \* the last request: what the provider did, the response
    \* ---- _extract_first_name / _extract_last_name (one candidate) ----
    nm_pc,            \* "init" | "done"
    nm_provider,
    full_name,        \* candidate.name
    extracted,        \* the first and last name sent to the provider
    \* ---- One ZohoRecruitAdapter instance shared by concurrent callers ----
    caller_pc,        \* per caller: where it is in its operation
    caller_data,      \* per caller: the access_token of the answer it got
    shared_token,     \* access_token, token_expiry and the session header
    written_by,       \* per field of the token state: the refresh that wrote it
    token_requests,   \* the callers that sent a token request, in order
    api_requests      \* the requests sent to the Recruit API, in order

transport_vars == <<http_pc, request, attempt_number, attempts, outcome, handler_response>>
paginate_vars  == <<pg_pc, initial_params, max_pages, page_size, params, all_items, page_count, next_url,
                    warned, fetch_calls, pages, pg_result, pg_error>>
offset_vars    == <<off_pc, off_page_size, max_items, offset, off_items, off_calls,
                    off_pages, off_result>>
normalize_vars == <<nj_pc, provider, raw_job, job>>
application_vars == <<na_pc, raw_app, application_status>>
adapter_vars == <<ad_pc, ad_provider, access_token, token_expiry, session_auth, clock, ticks,
                  ops_done, last_op>>
service_vars == <<registry, ats_provider_env, registrations, constructed, requests_done,
                  last_request>>
later_vars == <<application_vars, adapter_vars, service_vars>>
boundary_vars == <<prev_report, last_report>>
names_vars == <<nm_pc, nm_provider, full_name, extracted>>
shared_vars == <<caller_pc, caller_data, shared_token, written_by, token_requests,
                 api_requests>>
last_vars == <<boundary_vars, names_vars, shared_vars>>
vars == <<transport_vars, paginate_vars, offset_vars, normalize_vars, later_vars, last_vars>>

\* What an action of one component leaves alone: the other components.
not_transport == <<paginate_vars, offset_vars, normalize_vars, later_vars, last_vars>>
not_paginate  == <<transport_vars, offset_vars, normalize_vars, later_vars, last_vars>>
not_offset    == <<transport_vars, paginate_vars, normalize_vars, later_vars, last_vars>>
not_normalize == <<transport_vars, paginate_vars, offset_vars, later_vars, last_vars>>
first_vars    == <<transport_vars, paginate_vars, offset_vars, normalize_vars>>
not_application == <<first_vars, adapter_vars, service_vars, last_vars>>
not_adapter     == <<first_vars, application_vars, service_vars, last_vars>>
not_service     == <<first_vars, application_vars, adapter_vars, last_vars>>
not_boundary    == <<first_vars, later_vars, names_vars, shared_vars>>
not_names       == <<first_vars, later_vars, boundary_vars, shared_vars>>
not_shared      == <<first_vars, later_vars, boundary_vars, names_vars>>

\* Python's None, and a key that is absent from a mapping.
None    == "<None>"
Missing == "<missing>"

(***************************************************************************)
(*                           utils/errors.py                               *)
(***************************************************************************)
\* An exception object. `attempt` is the attempt that constructed it (object
\* identity); error_code/retryable/status_code are meaningful for ATSError
\* subclasses only, retry_after for ATSRateLimitError only (-1: not set).
Exc(type, message, error_code, retryable, status_code, retry_after, n) ==
    [type |-> type, message |-> message, error_code |-> error_code,
     retryable |-> retryable, status_code |-> status_code,
     retry_after |-> retry_after, attempt |-> n]

ATSError(message, status_code, n) ==
    Exc("ATSError", message, "ATS_SERVICE_ERROR", FALSE, status_code, -1, n)

ATSConnectionError(message, n) ==
    Exc("ATSConnectionError", message, "ATS_CONNECTION_ERROR", TRUE, 503, -1, n)

ATSAuthenticationError(message, n) ==
    Exc("ATSAuthenticationError", message, "ATS_AUTHENTICATION_ERROR", FALSE, 401, -1, n)

ATSRateLimitError(retry_after, n) ==
    Exc("ATSRateLimitError", "ATS rate limit exceeded", "ATS_RATE_LIMIT_ERROR", TRUE, 429,
        retry_after, n)

\* Exceptions outside the ATSError hierarchy.
RetryableError(message, n) ==
    Exc("RetryableError", message, None, FALSE, 0, -1, n)

ValueError(message, n) ==
    Exc("ValueError", message, None, FALSE, 0, -1, n)

ATSErrorTypes ==
    {"ATSError", "ValidationError", "ATSConnectionError", "ATSAuthenticationError",
     "ATSRateLimitError", "ATSNotFoundError"}

\* isinstance(error, ATSError)
IsATSError(err) == err.type \in ATSErrorTypes

NoResponse == [statusCode |-> 0, error |-> None, message |-> None, retryable |-> FALSE,
               data |-> None]

\* ATSError.to_dict inside format_error_response; any other exception is
\* reported as INTERNAL_ERROR.
format_error_response(err) ==
    IF IsATSError(err)
    THEN [statusCode |-> err.status_code, error |-> err.error_code,
          message |-> err.message, retryable |-> err.retryable, data |-> None]
    ELSE [statusCode |-> 500, error |-> "INTERNAL_ERROR",
          message |-> "An unexpected error occurred", retryable |-> FALSE, data |-> None]

format_success_response(data) ==
    [statusCode |-> 200, error |-> None, message |-> None, retryable |-> FALSE,
     data |-> data]

(***************************************************************************)
(*                     client/http_client.py: Transport                    *)
(***************************************************************************)
\* stop_after_attempt(3)
StopAfterAttempt == 3

Digits == <<"0", "1", "2", "3", "4", "5", "6", "7", "8", "9">>

DigitValue(c) == (CHOOSE i \in 1..10 : Digits[i] = c) - 1

IsDigit(c) == \E i \in 1..10 : Digits[i] = c

\* Whether int(text) accepts the text: a non-empty run of decimal digits.
IsIntLiteral(text) == Len(text) > 0 /\ \A i \in 1..Len(text) : IsDigit(text[i])

RECURSIVE DecimalValue(_)
DecimalValue(text) ==
    IF Len(text) = 0 THEN 0
    ELSE 10 * DecimalValue(SubSeq(text, 1, Len(text) - 1)) + DigitValue(text[Len(text)])

\* A header value is the sequence of its characters; <<None>> is an absent header.
Absent == <<None>>

\* The Retry-After values a provider sends: absent, delay-seconds, an HTTP-date.
RetryAfterValues ==
    {Absent, <<"5">>, <<"3", "0">>, <<"1", "2", "0">>, <<"W", "e", "d", ",">>}

\* Response bodies: none, a JSON document, or text that is not JSON.
Contents ==
    {[kind |-> "empty", doc |-> None], [kind |-> "json", doc |-> "docA"],
     [kind |-> "json", doc |-> "docB"], [kind |-> "not_json", doc |-> None]}

StatusCodes == {200, 201, 204, 400, 401, 403, 404, 422, 429, 500, 503}

\* What session.request does in one attempt: it raises Timeout, ConnectionError
\* or another RequestException, or it returns a response.
Raised(kind) ==
    [kind |-> kind, status_code |-> 0, retry_after |-> Absent,
     content |-> [kind |-> "empty", doc |-> None]]

Exchanges ==
    {Raised("Timeout"), Raised("ConnectionError"), Raised("RequestException")}
    \cup UNION {
        {[kind |-> "response", status_code |-> s, retry_after |-> ra, content |-> c] :
            ra \in (IF s = 429 THEN RetryAfterValues ELSE {Absent}), c \in Contents}
        : s \in StatusCodes}

\* dict(response.headers)
ResponseHeaders(x) == [retry_after |-> x.retry_after]

NoHeaders == [retry_after |-> Absent]

NoExc == Exc(None, None, None, FALSE, 0, -1, 0)

Return(body, headers) ==
    [tag |-> "return", body |-> body, headers |-> headers, err |-> NoExc]

Raise(err) == [tag |-> "raise", body |-> None, headers |-> NoHeaders, err |-> err]

NoOutcome == [tag |-> "none", body |-> None, headers |-> NoHeaders, err |-> NoExc]

\* The empty mapping returned for a response without content.
EmptyDict == "{}"

\* int(response.headers.get("Retry-After", 60)) and the error it leads to:
\* int() of text that is not an integer literal raises ValueError, which no
\* except clause of _make_request catches.
RateLimited(x, n) ==
    IF x.retry_after = Absent THEN Raise(ATSRateLimitError(60, n))
    ELSE IF IsIntLiteral(x.retry_after)
         THEN Raise(ATSRateLimitError(DecimalValue(x.retry_after), n))
         ELSE Raise(ValueError("invalid literal for int() with base 10", n))

\* Lines 127-130: the parsed body and the headers. response.json() on a body
\* that is not JSON raises requests' JSONDecodeError, a RequestException,
\* which the last except clause turns into ATSConnectionError.
ParseSuccess(x, n) ==
    IF x.content.kind = "empty" THEN Return(EmptyDict, ResponseHeaders(x))
    ELSE IF x.content.kind = "json" THEN Return(x.content.doc, ResponseHeaders(x))
    ELSE Raise(ATSConnectionError("Request failed: " \o "Expecting value", n))

\* One execution of the body of _make_request (attempt n) on exchange x.
make_request_body(x, n) ==
    CASE x.kind = "Timeout" -> Raise(RetryableError("Request timed out", n))
      [] x.kind = "ConnectionError" ->
            Raise(ATSConnectionError("Failed to connect to ATS service", n))
      [] x.kind = "RequestException" ->
            Raise(ATSConnectionError("Request failed: " \o "Exceeded 30 redirects", n))
      [] OTHER ->
            IF x.status_code = 429 THEN RateLimited(x, n)
            ELSE IF x.status_code = 401
                 THEN Raise(ATSAuthenticationError("Invalid API credentials", n))
            ELSE IF x.status_code = 403
                 THEN Raise(ATSAuthenticationError(
                          "Access forbidden - check API permissions", n))
            ELSE IF x.status_code >= 500
                 THEN Raise(RetryableError("Server error: " \o ToString(x.status_code), n))
            ELSE IF x.status_code >= 400
                 THEN Raise(ATSError("Request failed with status "
                                     \o ToString(x.status_code), x.status_code, n))
            ELSE ParseSuccess(x, n)

\* A retry condition that holds for every exception.
retry_if_exception(out) == out.tag = "raise"

\* retry=retry_if_exception_type(RetryableError)
retry_if_exception_type(out) == out.tag = "raise" /\ out.err.type = "RetryableError"

\* A stop condition that counts retries where the decorator counts attempts.
stop_after_attempt_off_by_one(n) == n >= StopAfterAttempt - 1

\* stop=stop_after_attempt(3)
stop_after_attempt(n) == n >= StopAfterAttempt

\* The decorator without reraise=True: the last exception wrapped in RetryError.
reraise_wrapped(outs) ==
    Raise(Exc("RetryError", "RetryError[" \o outs[Len(outs)].out.err.message \o "]",
              None, FALSE, 0, -1, 0))

\* reraise=True: when the attempts are exhausted the last attempt's exception
\* is raised as it is.
reraise(outs) == outs[Len(outs)].out

Methods == {"GET", "POST"}

InitTransport ==
    /\ http_pc = "idle"
    /\ request = [method |-> None]
    /\ attempt_number = 0
    /\ attempts = <<>>
    /\ outcome = NoOutcome
    /\ handler_response = NoResponse

\* get / post / put / delete: the caller enters _make_request.
StartRequest ==
    /\ http_pc = "idle"
    /\ \E m \in Methods : request' = [method |-> m]
    /\ http_pc' = "attempting"
    /\ UNCHANGED <<attempt_number, attempts, outcome, handler_response, not_transport>>

\* One attempt of the retry loop: the exchange, the body of _make_request on
\* it, and the decorator's decision (return, raise, or wait and try again).
Attempt ==
    /\ http_pc = "attempting"
    /\ \E x \in Exchanges :
         LET n    == attempt_number + 1
             out  == make_request_body(x, n)
             outs == Append(attempts, [exchange |-> x, out |-> out])
         IN /\ attempt_number' = n
            /\ attempts' = outs
            /\ IF ~retry_if_exception_type(out)
               THEN http_pc' = "done" /\ outcome' = out
               ELSE IF stop_after_attempt(n)
                    THEN http_pc' = "done" /\ outcome' = reraise(outs)
                    ELSE http_pc' = "attempting" /\ outcome' = outcome
    /\ UNCHANGED <<request, handler_response, not_transport>>

\* The request handler around the adapter call: the result is serialised, any
\* exception goes through format_error_response.
HandlerRespond ==
    /\ http_pc = "done"
    /\ http_pc' = "responded"
    /\ handler_response' = IF outcome.tag = "return"
                           THEN format_success_response(outcome.body)
                           ELSE format_error_response(outcome.err)
    /\ UNCHANGED <<request, attempt_number, attempts, outcome, not_transport>>

NextTransport ==
    \/ StartRequest
    \/ Attempt
    \/ HandlerRespond

(***************************************************************************)
(*               client/pagination.py: PaginationHandler                   *)
(***************************************************************************)
\* PaginationHandler(page_size=100), as the Greenhouse adapter constructs it.
DefaultPageSize == 100

\* The largest max_pages a handler is constructed with.
MaxPages == 3

\* A query parameter value: an int, a str, or a list of str.
IntValue(n)  == [kind |-> "int", v |-> <<ToString(n)>>]
StrValue(t)  == [kind |-> "str", v |-> <<t>>]
ListValue(l) == [kind |-> "list", v |-> l]

\* A URL: its path and the (key, value) pairs of its query string, in order.
Url(path, query) == [path |-> path, query |-> query]

\* next_url = None
NoUrl == Url(None, <<>>)

UrlPage2 == Url("/v1/jobs", << <<"page", "2">>, <<"per_page", "50">> >>)
UrlPage3 == Url("/v1/jobs", << <<"page", "3">> >>)
UrlPrev  == Url("/v1/jobs", << <<"page", "1">> >>)
UrlLast  == Url("/v1/jobs", << <<"page", "9">>, <<"per_page", "50">> >>)
UrlIds   == Url("/v1/jobs", << <<"id", "7">>, <<"page", "4">>, <<"id", "8">> >>)

\* One entry of a Link header after split(","), split(";") and strip():
\* parts[0] (is it <...>, and the URL in it) and the parts after it.
LinkEntry(bracketed, url, rest) ==
    [url_part |-> [bracketed |-> bracketed, url |-> url], rest |-> rest]

RelNext   == "rel=\"next\""
RelNextSq == "rel='next'"
RelLast   == "rel=\"last\""
RelPrev   == "rel=\"prev\""

\* Link header values; <<>> is the empty string.
LinkValues ==
    { <<>>,
      << LinkEntry(TRUE, UrlPage2, <<RelNext>>) >>,
      << LinkEntry(TRUE, UrlPage3, <<RelNext>>), LinkEntry(TRUE, UrlLast, <<RelLast>>) >>,
      << LinkEntry(TRUE, UrlPrev, <<RelPrev>>), LinkEntry(TRUE, UrlIds, <<RelNext>>) >>,
      << LinkEntry(TRUE, UrlPrev, <<RelPrev>>), LinkEntry(TRUE, UrlLast, <<RelLast>>) >> }

\* Response headers as dict(response.headers) gives them: the key keeps the
\* letter case the server sent. <<>> is a dict without any Link key.
ResponseHeaderDicts ==
    { <<>> }
    \cup { ("Link" :> v) : v \in LinkValues }
    \cup { ("link" :> << LinkEntry(TRUE, UrlPage2, <<RelNextSq>>) >>),
           ("LINK" :> << LinkEntry(TRUE, UrlPage2, <<RelNext>>) >>) }

\* What fetch_func returns for one page: items (a list or not) and headers.
ItemLists == { <<>>, <<"a", "b">>, <<"c">> }

FetchResults ==
    { [is_list |-> TRUE, items |-> l, headers |-> h] :
          l \in ItemLists, h \in ResponseHeaderDicts }
    \cup { [is_list |-> FALSE, items |-> <<>>, headers |-> ("Link" :> <<>>)] }

\* 'rel="next"' in rel_part or "rel='next'" in rel_part
HasRelNext(rel_part) == rel_part \in {RelNext, RelNextSq}

\* headers.get("Link", headers.get("link", ""))
get_link_header(headers) ==
    IF "Link" \in DOMAIN headers THEN headers["Link"]
    ELSE IF "link" \in DOMAIN headers THEN headers["link"]
    ELSE <<>>

\* The loop over the entries: the first entry with at least two parts whose
\* second part holds rel="next" and whose first part matches <(.+)>.
RECURSIVE first_next_url(_)
first_next_url(links) ==
    IF links = <<>> THEN NoUrl
    ELSE LET link == Head(links)
         IN IF /\ Len(link.rest) >= 1
               /\ HasRelNext(link.rest[1])
               /\ link.url_part.bracketed
            THEN link.url_part.url
            ELSE first_next_url(Tail(links))

\* PaginationHandler._get_next_page_url
get_next_page_url(headers) ==
    LET link_header == get_link_header(headers)
    IN IF link_header = <<>> THEN NoUrl ELSE first_next_url(link_header)

\* parse_qs: each key with the list of its values, in query order.
parse_qs(query) ==
    [k \in {query[i][1] : i \in 1..Len(query)} |->
        LET own == SelectSeq(query, LAMBDA kv : kv[1] = k)
        IN [i \in 1..Len(own) |-> own[i][2]]]

\* PaginationHandler._parse_url_params
parse_url_params(url) ==
    LET qs == parse_qs(url.query)
    IN [k \in DOMAIN qs |->
           IF Len(qs[k]) = 1 THEN StrValue(qs[k][1]) ELSE ListValue(qs[k])]

\* An assignment d[key] = value, which replaces a value the dict has.
set_item(d, key, value) ==
    [k \in DOMAIN d \cup {key} |-> IF k = key THEN value ELSE d[k]]

\* dict.setdefault(key, value)
setdefault(d, key, value) ==
    IF key \in DOMAIN d THEN d
    ELSE [k \in DOMAIN d \cup {key} |-> IF k = key THEN value ELSE d[k]]

\* The initial_params callers pass: None, or a dict.
InitialParams ==
    { <<>>,
      ("per_page" :> IntValue(50)),
      ("per_page" :> IntValue(100)) @@ ("status" :> StrValue("open")) }

\* A loop condition that lets one page too many through.
loop_condition_inclusive(count, limit) == count <= limit

\* while page_count < self.max_pages
loop_condition(count, limit) == count < limit

\* Items added in front of the accumulated ones.
extend_in_front(all, items) == items \o all

\* all_items.extend(items)
extend(all, items) == all \o items

\* What fetch_func raises: the exception client.get ends with, after the
\* retries of _make_request when the failure was retryable.
FetchErrors ==
    {make_request_body(x, IF retry_if_exception_type(make_request_body(x, 1)) THEN StopAfterAttempt ELSE 1).err :
        x \in {Raised("Timeout"), Raised("ConnectionError"),
               [kind |-> "response", status_code |-> 503, retry_after |-> Absent,
                content |-> [kind |-> "empty", doc |-> None]],
               [kind |-> "response", status_code |-> 401, retry_after |-> Absent,
                content |-> [kind |-> "empty", doc |-> None]],
               [kind |-> "response", status_code |-> 429, retry_after |-> Absent,
                content |-> [kind |-> "empty", doc |-> None]]}}

\* An exception handler around the fetch that gives up the failing page and
\* returns the items fetched so far.
fetch_raised_returning_items(err, items) ==
    [pc |-> "done", error |-> NoExc, result |-> items]

\* The exception of fetch_func leaves paginate: the call ends with it and
\* returns nothing.
fetch_raised(err, items) == [pc |-> "raised", error |-> err, result |-> <<>>]

InitPaginate ==
    /\ pg_pc = "init"
    /\ initial_params \in InitialParams
    /\ max_pages \in 1..MaxPages
    /\ page_size = DefaultPageSize
    /\ params = <<>>
    /\ all_items = <<>>
    /\ page_count = 0
    /\ next_url = NoUrl
    /\ warned = FALSE
    /\ fetch_calls = <<>>
    /\ pages = <<>>
    /\ pg_result = <<>>
    /\ pg_error = NoExc

\* Lines 47-52: the state before the loop.
PaginateEnter ==
    /\ pg_pc = "init"
    /\ pg_pc' = "loop"
    /\ all_items' = <<>>
    /\ params' = setdefault(initial_params, "per_page", IntValue(page_size))
    /\ page_count' = 0
    /\ next_url' = NoUrl
    /\ UNCHANGED <<initial_params, max_pages, page_size, warned, fetch_calls, pages,
                   pg_result, pg_error, not_paginate>>

\* One iteration of the loop (lines 54-73) around one fetch_func call; when
\* the loop ends with it, lines 75-78 as well.
PaginateFetch ==
    /\ pg_pc = "loop"
    /\ loop_condition(page_count, max_pages)
    /\ \E page \in FetchResults :
         LET count == page_count + 1
             items == IF page.is_list THEN extend(all_items, page.items) ELSE all_items
             url   == get_next_page_url(page.headers)
             ended == url = NoUrl \/ ~loop_condition(count, max_pages)
         IN /\ page_count' = count
            /\ fetch_calls' = Append(fetch_calls, params)
            /\ pages' = Append(pages, page)
            /\ all_items' = items
            /\ next_url' = url
            /\ params' = IF url = NoUrl THEN params
                         ELSE setdefault(parse_url_params(url), "per_page",
                                         IntValue(page_size))
            /\ pg_pc' = IF ended THEN "done" ELSE "loop"
            /\ warned' = IF ended THEN count >= max_pages ELSE warned
            /\ pg_result' = IF ended THEN items ELSE pg_result
    /\ UNCHANGED <<initial_params, max_pages, page_size, pg_error, not_paginate>>

\* One iteration of the loop in which fetch_func raises (line 59): nothing in
\* paginate catches the exception, so the call ends with it.
PaginateFetchRaises ==
    /\ pg_pc = "loop"
    /\ loop_condition(page_count, max_pages)
    /\ \E err \in FetchErrors :
         LET ended == fetch_raised(err, all_items)
         IN /\ pg_pc' = ended.pc
            /\ pg_error' = ended.error
            /\ pg_result' = ended.result
    /\ page_count' = page_count + 1
    /\ fetch_calls' = Append(fetch_calls, params)
    /\ UNCHANGED <<initial_params, max_pages, page_size, params, all_items, next_url,
                   warned, pages, not_paginate>>

NextPaginate ==
    \/ PaginateEnter
    \/ PaginateFetch
    \/ PaginateFetchRaises

(***************************************************************************)
(*               client/pagination.py: paginate_with_offset                *)
(***************************************************************************)
\* The largest page_size, max_items and reported total of a call.
MaxOffsetPageSize == 2
MaxItemsCeiling == 4
MaxTotal == 6

\* The items fetch_func returns for (offset, limit) when it returns n of them.
OffsetItems(from, n) == [i \in 1..n |-> from + i]

InitOffset ==
    /\ off_pc = "init"
    /\ off_page_size \in 1..MaxOffsetPageSize
    /\ max_items \in off_page_size..MaxItemsCeiling
    /\ offset = 0
    /\ off_items = <<>>
    /\ off_calls = <<>>
    /\ off_pages = <<>>
    /\ off_result = <<>>

\* Lines 132-135: the state before the loop (a max_items of 0 would return
\* the empty list at once; the calls modelled have room for a page or more).
OffsetEnter ==
    /\ off_pc = "init"
    /\ off_items' = <<>>
    /\ offset' = 0
    /\ off_pc' = IF 0 < max_items THEN "loop" ELSE "done"
    /\ off_result' = <<>>
    /\ UNCHANGED <<off_page_size, max_items, off_calls, off_pages, not_offset>>

\* One iteration of the loop (lines 135-145) around one fetch_func call, which
\* returns at most `limit` items and a total that counts at least the items
\* served so far; when the loop ends with it, the return as well.
OffsetFetch ==
    /\ off_pc = "loop"
    /\ offset < max_items
    /\ \E n \in 0..off_page_size : \E total \in (offset + n)..MaxTotal :
         LET items  == OffsetItems(offset, n)
             all    == IF items = <<>> THEN off_items ELSE off_items \o items
             newoff == IF items = <<>> THEN offset ELSE offset + Len(items)
             ended  == items = <<>> \/ newoff >= total \/ ~(newoff < max_items)
         IN /\ off_calls' = Append(off_calls, [offset |-> offset, limit |-> off_page_size,
                                               accumulated |-> Len(off_items)])
            /\ off_pages' = Append(off_pages, [n |-> n, total |-> total])
            /\ off_items' = all
            /\ offset' = newoff
            /\ off_pc' = IF ended THEN "done" ELSE "loop"
            /\ off_result' = IF ended THEN all ELSE off_result
    /\ UNCHANGED <<off_page_size, max_items, not_offset>>

NextOffset ==
    \/ OffsetEnter
    \/ OffsetFetch

(***************************************************************************)
(*                    adapters: _normalize_job and Job                     *)
(***************************************************************************)
\* A JSON value of a provider payload: a string, an integer (its digits),
\* null, or a key that is missing from its mapping.
JStr(t)  == [t |-> "str", s |-> t]
JInt(t)  == [t |-> "int", s |-> t]
JNull    == [t |-> "null", s |-> ""]
JMissing == [t |-> "missing", s |-> ""]

\* dict.get(key, default)
get(value, default) == IF value.t = "missing" THEN default ELSE value

\* dict.get(key): None for a missing key
get_or_none(value) == get(value, JNull)

\* str(value) and {value} in an f-string
str(value) == IF value.t = "null" THEN "None" ELSE value.s

\* Truthiness of a JSON scalar.
truthy(value) ==
    \/ value.t = "str" /\ value.s # ""
    \/ value.t = "int" /\ value.s # "0"

\* str.lower() on the status texts of the payloads.
lower(t) ==
    CASE t = "Open"   -> "open"
      [] t = "OPEN"   -> "open"
      [] t = "CLOSED" -> "closed"
      [] t = "Draft"  -> "draft"
      [] OTHER        -> t

\* models/job.py: Job(...). Every field must be a str and status one of the
\* three literals, or validation raises.
StatusLiterals == {"OPEN", "CLOSED", "DRAFT"}

NoJob == [tag |-> "none", id |-> "", title |-> "", location |-> "", status |-> "",
          external_url |-> "", err |-> None]

JobRaise(err) == [NoJob EXCEPT !.tag = "raise", !.err = err]

Job(id, title, location, status, external_url) ==
    IF /\ \A f \in {id, title, location, status, external_url} : f.t = "str"
       /\ status.s \in StatusLiterals
    THEN [tag |-> "job", id |-> id.s, title |-> title.s, location |-> location.s,
          status |-> status.s, external_url |-> external_url.s, err |-> None]
    ELSE JobRaise("ValidationError")

\* dict.get(key, default) on a status table given as a set of <<key, value>>.
map_get(table, key, default) ==
    IF \E kv \in table : kv[1] = key
    THEN (CHOOSE kv \in table : kv[1] = key)[2]
    ELSE default

\* ---- Greenhouse ----
GreenhouseJobStatusMap == {<<"open", "OPEN">>, <<"closed", "CLOSED">>, <<"draft", "DRAFT">>}

\* ", ".join(names)
RECURSIVE join(_)
join(names) ==
    IF Len(names) = 0 THEN ""
    ELSE IF Len(names) = 1 THEN names[1]
    ELSE names[1] \o ", " \o join(Tail(names))

\* GreenhouseAdapter._extract_location. offices: missing, null or a list of
\* offices, each given by the value of its "name"; location: missing, null, a
\* dict (given by the value of its "name") or a string.
greenhouse_extract_location(raw) ==
    LET named == SelectSeq(raw.offices.names, LAMBDA o : truthy(get_or_none(o)))
        office_names == [i \in 1..Len(named) |-> named[i].s]
    IN IF raw.offices.t = "list" /\ Len(raw.offices.names) > 0 /\ Len(office_names) > 0
       THEN JStr(join(office_names))
       ELSE IF raw.location.t \in {"missing", "dict"}
            THEN get(raw.location.name, JStr("Remote"))
            ELSE IF raw.location.t = "str" THEN raw.location.name
            ELSE JStr("Remote")

\* GreenhouseAdapter._get_job_url
greenhouse_get_job_url(raw) ==
    IF raw.job_post.t = "dict" /\ truthy(get_or_none(raw.job_post.external_url))
    THEN raw.job_post.external_url
    ELSE JStr("https://boards.greenhouse.io/jobs/" \o str(get(raw.id, JStr(""))))

\* GreenhouseAdapter._normalize_job; .lower() on a null status raises.
greenhouse_normalize_job(raw) ==
    LET raw_status == get(raw.status, JStr("draft"))
    IN IF raw_status.t # "str" THEN JobRaise("AttributeError")
       ELSE Job(JStr(str(get(raw.id, JStr("")))),
                get(raw.name, JStr("Untitled Position")),
                greenhouse_extract_location(raw),
                JStr(map_get(GreenhouseJobStatusMap, lower(raw_status.s), "DRAFT")),
                greenhouse_get_job_url(raw))

\* ---- Zoho Recruit ----
ZohoJobStatusMap ==
    {<<"In-progress", "OPEN">>, <<"Filled", "CLOSED">>, <<"Cancelled", "CLOSED">>,
     <<"Draft", "DRAFT">>, <<"On-hold", "DRAFT">>}

ZohoRegion == "com"

\* ZohoRecruitAdapter._normalize_job
zoho_normalize_job(raw) ==
    Job(get_or_none(raw.id),
        get_or_none(raw.Posting_Title),
        get(raw.City, JStr("Remote")),
        JStr(map_get(ZohoJobStatusMap, str(get_or_none(raw.Job_Opening_Status)), "OPEN")),
        JStr("https://recruit.zoho." \o ZohoRegion \o "/recruit/JobOpenings.do?id="
             \o str(get_or_none(raw.id))))

\* ---- Workable ----
WorkableJobStatusMap ==
    {<<"published", "OPEN">>, <<"closed", "CLOSED">>, <<"archived", "CLOSED">>,
     <<"draft", "DRAFT">>}

\* WorkableAdapter._normalize_job; location: missing, null or a dict given by
\* the value of its "city"; .get on a null location raises.
workable_normalize_job(raw) ==
    LET state == get(raw.state, JStr("published"))
    IN IF raw.location.t = "null" THEN JobRaise("AttributeError")
       ELSE Job(get_or_none(raw.shortcode),
                get_or_none(raw.title),
                get(raw.location.city, JStr("Remote")),
                JStr(map_get(WorkableJobStatusMap, str(state), "OPEN")),
                get_or_none(raw.url))

\* ---- The raw jobs of the provider payloads ----
Offices(names) == [t |-> "list", names |-> names]

GreenhouseRawJobs ==
    [ id : {JInt("101"), JMissing},
      name : {JStr("Engineer"), JMissing, JNull},
      status : {JMissing, JNull, JStr("open"), JStr("closed"), JStr("draft"),
                JStr("Open"), JStr("CLOSED"), JStr("archived"), JStr("live")},
      offices : {[t |-> "missing", names |-> <<>>], [t |-> "null", names |-> <<>>],
                 Offices(<<>>), Offices(<<JStr("NYC")>>),
                 Offices(<<JStr("NYC"), JStr("SF")>>), Offices(<<JMissing>>),
                 Offices(<<JStr(""), JStr("SF")>>)},
      location : {[t |-> "missing", name |-> JMissing], [t |-> "null", name |-> JMissing],
                  [t |-> "dict", name |-> JStr("Berlin")],
                  [t |-> "dict", name |-> JMissing], [t |-> "dict", name |-> JNull],
                  [t |-> "dict", name |-> JStr("")],
                  [t |-> "str", name |-> JStr("Paris")], [t |-> "str", name |-> JStr("")]},
      job_post : {[t |-> "missing", external_url |-> JMissing],
                  [t |-> "null", external_url |-> JMissing],
                  [t |-> "dict", external_url |-> JStr("https://jobs.example.com/101")],
                  [t |-> "dict", external_url |-> JMissing]} ]

ZohoRawJobs ==
    [ id : {JStr("4150868000000225013"), JMissing},
      Posting_Title : {JStr("Engineer"), JMissing},
      City : {JStr("Pune"), JMissing, JNull},
      Job_Opening_Status : {JMissing, JStr("In-progress"), JStr("Filled"),
                            JStr("Cancelled"), JStr("Draft"), JStr("On-hold"),
                            JStr("Waiting for approval"), JStr("Inactive")} ]

WorkableRawJobs ==
    [ shortcode : {JStr("GROOV005"), JMissing},
      title : {JStr("Engineer"), JMissing},
      location : {[t |-> "missing", city |-> JMissing], [t |-> "null", city |-> JMissing],
                  [t |-> "dict", city |-> JStr("Athens")],
                  [t |-> "dict", city |-> JMissing], [t |-> "dict", city |-> JNull]},
      state : {JMissing, JStr("published"), JStr("closed"), JStr("archived"),
               JStr("draft"), JStr("on_hold")},
      url : {JStr("https://apply.workable.com/j/GROOV005"), JMissing} ]

InitNormalize ==
    /\ nj_pc = "init"
    /\ \/ provider = "greenhouse" /\ raw_job \in GreenhouseRawJobs
       \/ provider = "zoho_recruit" /\ raw_job \in ZohoRawJobs
       \/ provider = "workable" /\ raw_job \in WorkableRawJobs
    /\ job = NoJob

\* adapter._normalize_job(raw_job) of the configured provider.
NormalizeJob ==
    /\ nj_pc = "init"
    /\ nj_pc' = "done"
    /\ job' = CASE provider = "greenhouse"   -> greenhouse_normalize_job(raw_job)
                [] provider = "zoho_recruit" -> zoho_normalize_job(raw_job)
                [] provider = "workable"     -> workable_normalize_job(raw_job)
    /\ UNCHANGED <<provider, raw_job, not_normalize>>

NextNormalize == NormalizeJob

(***************************************************************************)
(*         adapters/greenhouse.py: _determine_application_status           *)
(***************************************************************************)
UpperCase == "ABCDEFGHIJKLMNOPQRSTUVWXYZ"
LowerCase == "abcdefghijklmnopqrstuvwxyz"

\* The lower-case letter of every upper-case letter.
LowerOf ==
    [c \in {SubSeq(UpperCase, i, i) : i \in 1..Len(UpperCase)} |->
        LET i == CHOOSE k \in 1..Len(UpperCase) : SubSeq(UpperCase, k, k) = c
        IN SubSeq(LowerCase, i, i)]

\* str.lower() of one character, and of a text.
lower_char(c) == IF c \in DOMAIN LowerOf THEN LowerOf[c] ELSE c

RECURSIVE str_lower(_)
str_lower(text) ==
    IF Len(text) = 0 THEN ""
    ELSE lower_char(SubSeq(text, 1, 1)) \o str_lower(SubSeq(text, 2, Len(text)))

\* pattern in text
contains(pattern, text) ==
    \E i \in 1..(Len(text) - Len(pattern) + 1) :
        SubSeq(text, i, i + Len(pattern) - 1) = pattern

\* APPLICATION_STATUS_MAP, in the order of its entries.
APPLICATION_STATUS_MAP ==
    << <<"application review", "APPLIED">>, <<"applied", "APPLIED">>, <<"new", "APPLIED">>,
       <<"phone screen", "SCREENING">>, <<"screening", "SCREENING">>,
       <<"recruiter screen", "SCREENING">>, <<"phone interview", "SCREENING">>,
       <<"technical screen", "SCREENING">>,
       <<"interview", "SCREENING">>, <<"onsite", "SCREENING">>,
       <<"onsite interview", "SCREENING">>, <<"final interview", "SCREENING">>,
       <<"offer", "SCREENING">>, <<"reference check", "SCREENING">>,
       <<"background check", "SCREENING">>,
       <<"hired", "HIRED">>, <<"rejected", "REJECTED">> >>

\* A loop over the table that lets a later matching entry replace an earlier
\* one: the last match.
RECURSIVE map_stage_last_match(_, _)
map_stage_last_match(i, stage_name) ==
    IF i > Len(APPLICATION_STATUS_MAP) THEN "APPLIED"
    ELSE LET later == {j \in i..Len(APPLICATION_STATUS_MAP) :
                          contains(APPLICATION_STATUS_MAP[j][1], stage_name)}
         IN IF later = {} THEN "APPLIED"
            ELSE APPLICATION_STATUS_MAP[CHOOSE j \in later : \A k \in later : k <= j][2]

\* Lines 308-313: the first entry whose pattern occurs in the stage name, or
\* APPLIED.
RECURSIVE map_stage(_, _)
map_stage(i, stage_name) ==
    IF i > Len(APPLICATION_STATUS_MAP) THEN "APPLIED"
    ELSE IF contains(APPLICATION_STATUS_MAP[i][1], stage_name)
         THEN APPLICATION_STATUS_MAP[i][2]
         ELSE map_stage(i + 1, stage_name)

\* Truthiness of current_stage: a dict with at least one key.
truthy_stage(stage) == stage.t = "dict" /\ ~stage.empty

\* Lines 299-300: current_stage is missing, null or a dict given by the value
\* of its "name".
stage_name_of(raw) ==
    IF truthy_stage(raw.current_stage)
    THEN get(raw.current_stage.name, JStr(""))
    ELSE JStr("")

\* The body of _determine_application_status with the hired test moved in
\* front of the rejection test.
determine_application_status_hired_first(raw) ==
    LET stage  == stage_name_of(raw)
        status == get(raw.status, JStr(""))
    IN IF stage.t # "str" \/ status.t # "str" THEN "<AttributeError>"
       ELSE IF str_lower(status.s) = "hired" \/ contains("hired", str_lower(stage.s))
            THEN "HIRED"
       ELSE IF truthy(get_or_none(raw.rejected_at)) THEN "REJECTED"
       ELSE map_stage(1, str_lower(stage.s))

\* GreenhouseAdapter._determine_application_status; .lower() on a value that
\* is not a string raises AttributeError.
determine_application_status(raw) ==
    LET stage  == stage_name_of(raw)
        status == get(raw.status, JStr(""))
    IN IF truthy(get_or_none(raw.rejected_at)) THEN "REJECTED"
       ELSE IF stage.t # "str" \/ status.t # "str" THEN "<AttributeError>"
       ELSE IF str_lower(status.s) = "hired" \/ contains("hired", str_lower(stage.s))
            THEN "HIRED"
       ELSE map_stage(1, str_lower(stage.s))

\* The stage names of the payloads.
StageNames ==
    {"Application Review", "Phone Screen", "Interview", "Onsite Interview", "Offer",
     "Hired", "HIRED - pending start", "Rejected", "Take Home Test", "Renewal", "",
     "New Hire Interview", "Offer Rejected"}

Stage(name) == [t |-> "dict", empty |-> FALSE, name |-> name]

\* The applications of a Harvest payload: rejected_at is null or a timestamp,
\* current_stage null or a stage, status a string.
RawApplications ==
    [ rejected_at : {JMissing, JNull, JStr(""), JStr("2024-01-15T10:00:00Z")},
      current_stage : {[t |-> "missing", empty |-> TRUE, name |-> JMissing],
                       [t |-> "null", empty |-> TRUE, name |-> JMissing],
                       [t |-> "dict", empty |-> TRUE, name |-> JMissing],
                       [t |-> "dict", empty |-> FALSE, name |-> JMissing]}
                      \cup {Stage(JStr(n)) : n \in StageNames},
      status : {JMissing, JStr("active"), JStr("rejected"), JStr("hired"), JStr("Hired"),
                JStr("converted")} ]

InitApplication ==
    /\ na_pc = "init"
    /\ raw_app \in RawApplications
    /\ application_status = None

\* self._determine_application_status(raw_app)
DetermineApplicationStatus ==
    /\ na_pc = "init"
    /\ na_pc' = "done"
    /\ application_status' = determine_application_status(raw_app)
    /\ UNCHANGED <<raw_app, not_application>>

NextApplication == DetermineApplicationStatus

(***************************************************************************)
(*        adapters: the client call, create_candidate, health_check        *)
(***************************************************************************)
\* An exception that is not constructed by one attempt of _make_request.
PyError(type, message) == Exc(type, message, None, FALSE, 0, -1, 0)

\* ATSError(message): status_code defaults to 500.
ServiceError(message) == ATSError(message, 500, 0)

\* HTTPClient.get / post as its caller sees it: the retry loop of
\* _make_request run on a script, the exchange each successive attempt gets.
\* The result is what the decorated call returns or raises, and the number of
\* requests that were sent.
RECURSIVE make_request(_, _, _)
make_request(script, n, outs) ==
    LET out   == make_request_body(script[n], n)
        outs2 == Append(outs, [exchange |-> script[n], out |-> out])
    IN IF ~retry_if_exception_type(out) THEN [out |-> out, sent |-> n]
       ELSE IF stop_after_attempt(n) THEN [out |-> reraise(outs2), sent |-> n]
       ELSE make_request(script, n + 1, outs2)

client_request(script) == make_request(script, 1, <<>>)

\* Responses and failures of one exchange with the provider.
Response(status_code, retry_after, content) ==
    [kind |-> "response", status_code |-> status_code, retry_after |-> retry_after,
     content |-> content]

Ok(doc) == Response(200, Absent, [kind |-> "json", doc |-> doc])

HttpDate == <<"W", "e", "d", ",">>

\* The exchanges of a provider that answers a successful request with one of
\* the documents docs.
ApiExchanges(docs) ==
    {Ok(doc) : doc \in docs}
    \cup {Response(204, Absent, [kind |-> "empty", doc |-> None]),
          Response(200, Absent, [kind |-> "not_json", doc |-> None]),
          Response(401, Absent, [kind |-> "empty", doc |-> None]),
          Response(404, Absent, [kind |-> "empty", doc |-> None]),
          Response(429, Absent, [kind |-> "empty", doc |-> None]),
          Response(429, HttpDate, [kind |-> "empty", doc |-> None]),
          Response(503, Absent, [kind |-> "empty", doc |-> None]),
          Raised("Timeout"), Raised("ConnectionError")}

\* Scripts: the provider answers every attempt alike, or the first attempt
\* times out and the provider answers the later ones alike.
ApiScripts(docs) ==
    {[i \in 1..StopAfterAttempt |-> x] : x \in ApiExchanges(docs)}
    \cup {[i \in 1..StopAfterAttempt |-> IF i = 1 THEN Raised("Timeout") ELSE x] :
            x \in ApiExchanges(docs)}

\* ---- models/candidate.py ----
CandidateCreate(name, email, phone, job_id) ==
    [name |-> name, email |-> email, phone |-> phone, resume_url |-> None, job_id |-> job_id]

Candidates ==
    {CandidateCreate("John Doe", "john@example.com", None, "123456"),
     CandidateCreate("Cher", "cher@example.com", "+1-555-123-4567", "ENG-42")}

NoCandidateResponse ==
    [candidate_id |-> "", application_id |-> "", name |-> "", email |-> "", job_id |-> "",
     status |-> ""]

\* What an adapter operation gives its caller.
OpReturn(candidate, items, healthy) ==
    [tag |-> "return", candidate |-> candidate, items |-> items, healthy |-> healthy,
     err |-> NoExc]

OpRaise(err) ==
    [tag |-> "raise", candidate |-> NoCandidateResponse, items |-> <<>>, healthy |-> FALSE,
     err |-> err]

NoResult ==
    [tag |-> "none", candidate |-> NoCandidateResponse, items |-> <<>>, healthy |-> FALSE,
     err |-> NoExc]

\* CandidateResponse(...): the ids must be str or validation raises.
CandidateResponse(candidate_id, application_id, candidate) ==
    IF candidate_id.t = "str" /\ application_id.t = "str"
    THEN OpReturn([candidate_id |-> candidate_id.s, application_id |-> application_id.s,
                   name |-> candidate.name, email |-> candidate.email,
                   job_id |-> candidate.job_id, status |-> "APPLIED"], <<>>, FALSE)
    ELSE OpRaise(PyError("pydantic.ValidationError", "Input should be a valid string"))

\* One call of client.get / client.post: what was asked, the Authorization
\* header of the session, the number of requests sent, and what came back.
ApiCall(method, endpoint, auth, call) ==
    [method |-> method, endpoint |-> endpoint, auth |-> auth, sent |-> call.sent,
     out |-> call.out]

\* What an operation did: the calls it made through the client, in order,
\* and its result.
Done(calls, result) == [calls |-> calls, result |-> result]

\* int(text) accepts a run of decimal digits.
IsDecimal(text) ==
    Len(text) > 0 /\ \A i \in 1..Len(text) : contains(SubSeq(text, i, i), "0123456789")

\* int(text) of a run of decimal digits.
RECURSIVE DecimalOf(_)
DecimalOf(text) ==
    IF Len(text) = 0 THEN 0
    ELSE 10 * DecimalOf(SubSeq(text, 1, Len(text) - 1))
         + (CHOOSE v \in 0..9 : SubSeq("0123456789", v + 1, v + 1)
                                    = SubSeq(text, Len(text), Len(text)))

\* ---- Greenhouse ----
\* The documents of POST candidates and what response.json() makes of them.
GreenhouseCandidateDocs ==
    {"gh_created", "gh_no_applications", "gh_applications_missing", "gh_no_id"}

greenhouse_json(doc) ==
    CASE doc = "gh_created" ->
            [id |-> JInt("789"), applications |-> [t |-> "list", ids |-> <<JInt("456")>>]]
      [] doc = "gh_no_applications" ->
            [id |-> JInt("789"), applications |-> [t |-> "list", ids |-> <<>>]]
      [] doc = "gh_applications_missing" ->
            [id |-> JInt("789"), applications |-> [t |-> "missing", ids |-> <<>>]]
      [] doc = "gh_no_id" ->
            [id |-> JMissing, applications |-> [t |-> "list", ids |-> <<JInt("456")>>]]
      [] OTHER ->
            [id |-> JMissing, applications |-> [t |-> "missing", ids |-> <<>>]]

BasicAuth == "Basic <api_key>:"

\* GreenhouseAdapter.create_candidate
greenhouse_create_candidate(candidate, script) ==
    IF ~IsDecimal(candidate.job_id)
    THEN Done(<<>>, OpRaise(PyError("ValueError", "invalid literal for int() with base 10")))
    ELSE LET call     == client_request(script)
             calls    == <<ApiCall("POST", "candidates", BasicAuth, call)>>
             response == greenhouse_json(call.out.body)
             candidate_id   == JStr(str(get(response.id, JStr(""))))
             application_id ==
                 IF Len(response.applications.ids) > 0
                 THEN JStr(str(response.applications.ids[1]))
                 ELSE JStr("")
         IN IF call.out.tag = "raise" THEN Done(calls, OpRaise(call.out.err))
            ELSE IF application_id.s = ""
                 THEN Done(calls, OpRaise(ServiceError(
                               "Failed to create application for candidate")))
                 ELSE Done(calls, CandidateResponse(candidate_id, application_id, candidate))

\* ---- Workable ----
WorkableCandidateDocs == {"wk_created", "wk_no_candidate", "wk_no_id"}

workable_json(doc) ==
    CASE doc = "wk_created" -> [candidate |-> [t |-> "dict", id |-> JStr("3fc9a80f")]]
      [] doc = "wk_no_id"   -> [candidate |-> [t |-> "dict", id |-> JMissing]]
      [] OTHER              -> [candidate |-> [t |-> "missing", id |-> JMissing]]

WorkableAuth == "Bearer <workable_api_key>"

\* WorkableAdapter.create_candidate
workable_create_candidate(candidate, script) ==
    LET call     == client_request(script)
        calls    == <<ApiCall("POST", "jobs/" \o candidate.job_id \o "/candidates",
                              WorkableAuth, call)>>
        response == workable_json(call.out.body)
        candidate_id == JStr(str(get_or_none(response.candidate.id)))
    IN IF call.out.tag = "raise" THEN Done(calls, OpRaise(call.out.err))
       ELSE Done(calls, CandidateResponse(candidate_id, candidate_id, candidate))

\* ---- Zoho Recruit: the access token ----
\* What the accounts endpoint answers to a token request.
TokenDocs == {"token_A", "token_B_no_expiry", "token_error"}

token_json(doc) ==
    CASE doc = "token_A" -> [access_token |-> JStr("tokA"), expires_in |-> JInt("3600")]
      [] doc = "token_B_no_expiry" -> [access_token |-> JStr("tokB"), expires_in |-> JMissing]
      [] OTHER -> [access_token |-> JMissing, expires_in |-> JMissing]

NoRefresh == Raised("none")

RefreshExchanges ==
    {Ok(doc) : doc \in TokenDocs}
    \cup {Response(200, Absent, [kind |-> "not_json", doc |-> None]),
          Response(400, Absent, [kind |-> "json", doc |-> "token_error"]),
          Response(500, Absent, [kind |-> "empty", doc |-> None]),
          Raised("Timeout"), Raised("ConnectionError")}

\* The margin of line 44 and the default of data.get("expires_in", 3600).
RefreshMargin    == 60
DefaultExpiresIn == 3600

\* The header of a plain bearer token.
BearerAuth(token) == "Bearer " \o token

\* Line 78: f"Zoho-oauthtoken {self.access_token}"
ZohoAuth(token) == "Zoho-oauthtoken " \o token

\* The token state of an adapter instance.
TokenState(token, expiry, auth) ==
    [access_token |-> token, token_expiry |-> expiry, session_auth |-> auth]

Refreshed(raised, sent, state) == [raised |-> raised, sent |-> sent, state |-> state]

\* A staleness test without the margin: the token is used up to its expiry.
token_is_fresh_to_expiry(state, now) ==
    state.access_token # None /\ now < state.token_expiry

\* Line 44: self.access_token and time.time() < self.token_expiry - 60
token_is_fresh(state, now) ==
    state.access_token # None /\ now < state.token_expiry - RefreshMargin

\* A failure path that drops the cached token before it raises.
refresh_failed_dropping_token(err, state) ==
    Refreshed(err, TRUE, TokenState(None, 0, state.session_auth))

\* Lines 63-70 and 81-83: the exception is raised before line 72, so nothing
\* has been assigned.
refresh_failed(err, state) == Refreshed(err, TRUE, state)

\* ZohoRecruitAdapter._refresh_access_token at time now, the accounts
\* endpoint answering x. response.json() on a body that is not JSON raises a
\* RequestException, like a failed connection.
refresh_access_token(state, now, x) ==
    IF token_is_fresh(state, now) THEN Refreshed(NoExc, FALSE, state)
    ELSE IF x.kind # "response"
         THEN refresh_failed(
                  ATSConnectionError("Failed to connect to Zoho token service", 0), state)
    ELSE IF x.status_code # 200
         THEN refresh_failed(
                  ATSAuthenticationError("Failed to refresh Zoho access token", 0), state)
    ELSE IF x.content.kind # "json"
         THEN refresh_failed(
                  ATSConnectionError("Failed to connect to Zoho token service", 0), state)
    ELSE LET data == token_json(x.content.doc)
         IN IF data.access_token.t = "missing"
            THEN refresh_failed(ATSAuthenticationError(
                                    "Invalid response from Zoho token endpoint", 0), state)
            ELSE Refreshed(NoExc, TRUE,
                     TokenState(data.access_token.s,
                                now + IF data.expires_in.t = "missing" THEN DefaultExpiresIn
                                      ELSE DecimalOf(data.expires_in.s),
                                ZohoAuth(data.access_token.s)))

\* ---- Zoho Recruit: create_candidate ----
ZohoCandidateDocs == {"zo_success", "zo_duplicate", "zo_empty_data", "zo_no_data"}

ZohoApplicationDocs == {"zo_app_success", "zo_duplicate"}

ZohoRecord(code, message, id) == [code |-> code, message |-> message, id |-> id]

\* response.json() of the two POSTs: data is missing or a list of records,
\* each with its code, its message and the id of its details (missing when
\* the record has no details).
zoho_json(doc) ==
    CASE doc = "zo_success" ->
            [t |-> "list", records |-> <<ZohoRecord(JStr("SUCCESS"), JStr("record added"),
                                                    JStr("4150868000002155001"))>>]
      [] doc = "zo_app_success" ->
            [t |-> "list", records |-> <<ZohoRecord(JStr("SUCCESS"), JStr("record added"),
                                                    JStr("4150868000002155002"))>>]
      [] doc = "zo_duplicate" ->
            [t |-> "list", records |-> <<ZohoRecord(JStr("DUPLICATE_DATA"),
                                                    JStr("duplicate data"), JMissing)>>]
      [] doc = "zo_mandatory" ->
            [t |-> "list", records |-> <<ZohoRecord(JStr("MANDATORY_NOT_FOUND"),
                                                    JStr("required field not found"),
                                                    JMissing)>>]
      [] doc = "zo_empty_data" -> [t |-> "list", records |-> <<>>]
      [] OTHER -> [t |-> "missing", records |-> <<>>]

\* Lines 123-127, on the first call's payload: the candidate id, or the
\* exception the lines raise.
zoho_candidate_id(data) ==
    IF Len(data.records) = 0
    THEN IF data.t = "missing"
         THEN [tag |-> "raise", id |-> JMissing,
               err |-> ServiceError("Failed to create candidate in Zoho: Unknown error")]
         ELSE [tag |-> "raise", id |-> JMissing,
               err |-> PyError("IndexError", "list index out of range")]
    ELSE IF get_or_none(data.records[1].code) # JStr("SUCCESS")
         THEN [tag |-> "raise", id |-> JMissing,
               err |-> ServiceError("Failed to create candidate in Zoho: "
                          \o str(get(data.records[1].message, JStr("Unknown error"))))]
    ELSE IF data.records[1].id.t = "missing"
         THEN [tag |-> "raise", id |-> JMissing, err |-> PyError("KeyError", "details")]
         ELSE [tag |-> "return", id |-> data.records[1].id, err |-> NoExc]

\* except ATSError (line 145)
except_ATSError(out) == out.tag = "raise" /\ IsATSError(out.err)

\* An except clause that catches the ATSError hierarchy only.
except_ATSError_only(out) == out.tag = "raise" /\ IsATSError(out.err)

\* except Exception (health_check)
except_Exception(out) == out.tag = "raise"

\* Lines 142-147: the application id after the second call.
zoho_application_id(out) ==
    IF except_ATSError(out)
    THEN [tag |-> "return", id |-> JStr("MANUAL_ASSOC_REQUIRED"), err |-> NoExc]
    ELSE IF out.tag = "raise" THEN [tag |-> "raise", id |-> JMissing, err |-> out.err]
    ELSE LET data == zoho_json(out.body)
         IN IF Len(data.records) = 0
            THEN [tag |-> "return", id |-> JStr("N/A"), err |-> NoExc]
            ELSE IF data.records[1].id.t = "missing"
                 THEN [tag |-> "raise", id |-> JMissing, err |-> PyError("KeyError", "details")]
                 ELSE [tag |-> "return", id |-> data.records[1].id, err |-> NoExc]

\* ZohoRecruitAdapter.create_candidate, lines 121-127: the first call. The
\* operation goes on to the second call when this gives no result.
zoho_first_call(candidate, auth, script) ==
    LET call1  == client_request(script)
        calls1 == <<ApiCall("POST", "Candidates", auth, call1)>>
        cand   == zoho_candidate_id(zoho_json(call1.out.body))
    IN IF call1.out.tag = "raise" THEN Done(calls1, OpRaise(call1.out.err))
       ELSE IF cand.tag = "raise" THEN Done(calls1, OpRaise(cand.err))
       ELSE Done(calls1, NoResult)

\* ZohoRecruitAdapter.create_candidate, lines 129-156: the second call and
\* the response.
zoho_second_call(candidate, auth, calls1, script) ==
    LET cand   == zoho_candidate_id(zoho_json(calls1[1].out.body))
        call2  == client_request(script)
        calls2 == Append(calls1, ApiCall("POST", "Applications", auth, call2))
        app    == zoho_application_id(call2.out)
    IN IF app.tag = "raise" THEN Done(calls2, OpRaise(app.err))
       ELSE Done(calls2, CandidateResponse(cand.id, app.id, candidate))

\* ---- Zoho Recruit: get_jobs, get_applications ----
ZohoJobDocs == {"zo_jobs", "zo_jobs_untitled"}

\* response_data.get("data", []) of GET Job_Openings
zoho_jobs_json(doc) ==
    CASE doc = "zo_jobs" ->
            << [id |-> JStr("4150868000000225013"), Posting_Title |-> JStr("Engineer"),
                City |-> JStr("Pune"), Job_Opening_Status |-> JStr("In-progress")],
               [id |-> JStr("4150868000000225014"), Posting_Title |-> JStr("Designer"),
                City |-> JMissing, Job_Opening_Status |-> JStr("Filled")] >>
      [] doc = "zo_jobs_untitled" ->
            << [id |-> JStr("4150868000000225015"), Posting_Title |-> JMissing,
                City |-> JStr("Pune"), Job_Opening_Status |-> JStr("Draft")] >>
      [] OTHER -> <<>>

StatusFilters == {None, "OPEN"}

\* ZohoRecruitAdapter.get_jobs after _ensure_authenticated; a job that does
\* not validate raises out of the loop.
zoho_get_jobs(status_filter, auth, script) ==
    LET call  == client_request(script)
        calls == <<ApiCall("GET", "Job_Openings", auth, call)>>
        raw_jobs == zoho_jobs_json(call.out.body)
        jobs  == [i \in 1..Len(raw_jobs) |-> zoho_normalize_job(raw_jobs[i])]
        kept  == SelectSeq(jobs, LAMBDA j : status_filter = None \/ j.status = status_filter)
    IN IF call.out.tag = "raise" THEN Done(calls, OpRaise(call.out.err))
       ELSE IF \E i \in 1..Len(jobs) : jobs[i].tag = "raise"
            THEN Done(calls, OpRaise(PyError("pydantic.ValidationError",
                                             "Input should be a valid string")))
            ELSE Done(calls, OpReturn(NoCandidateResponse, kept, FALSE))

ZohoApplicationListDocs == {"zo_applications"}

\* response_data.get("data", []) of GET Applications: per record its id, its
\* Candidate_ID (missing, or a dict given by name and email) and its status.
zoho_applications_json(doc) ==
    CASE doc = "zo_applications" ->
            << [id |-> JStr("4150868000000300001"),
                Candidate_ID |-> [t |-> "dict", name |-> JStr("John Doe"),
                                  email |-> JStr("john@example.com")],
                Application_Status |-> JStr("Screening")],
               [id |-> JStr("4150868000000300002"),
                Candidate_ID |-> [t |-> "missing", name |-> JMissing, email |-> JMissing],
                Application_Status |-> JStr("Waiting-for-Evaluation")] >>
      [] OTHER -> <<>>

ZohoApplicationStatusMap ==
    {<<"Applied", "APPLIED">>, <<"Screening", "SCREENING">>, <<"Rejected", "REJECTED">>,
     <<"Hired", "HIRED">>}

\* value or "Unknown"
or_unknown(value) == IF truthy(value) THEN value.s ELSE "Unknown"

\* ZohoRecruitAdapter._normalize_application
zoho_normalize_application(raw) ==
    [id |-> str(get_or_none(raw.id)),
     candidate_name |-> or_unknown(get_or_none(raw.Candidate_ID.name)),
     email |-> or_unknown(get_or_none(raw.Candidate_ID.email)),
     status |-> map_get(ZohoApplicationStatusMap, str(get_or_none(raw.Application_Status)),
                        "APPLIED")]

\* ZohoRecruitAdapter.get_applications after _ensure_authenticated.
zoho_get_applications(job_id, auth, script) ==
    LET call  == client_request(script)
        calls == <<ApiCall("GET", "Applications", auth, call)>>
        raw_apps == zoho_applications_json(call.out.body)
    IN IF call.out.tag = "raise" THEN Done(calls, OpRaise(call.out.err))
       ELSE Done(calls, OpReturn(NoCandidateResponse,
                    [i \in 1..Len(raw_apps) |-> zoho_normalize_application(raw_apps[i])],
                    FALSE))

\* ---- health_check ----
HealthDocs == {"listing"}

\* health_check of the three adapters, after _ensure_authenticated for Zoho:
\* one GET; True when it returns, False when it raises anything.
health_check(endpoint, auth, script) ==
    LET call  == client_request(script)
        calls == <<ApiCall("GET", endpoint, auth, call)>>
    IN Done(calls, OpReturn(NoCandidateResponse, <<>>, ~except_Exception(call.out)))

\* health_check of the Zoho adapter when _ensure_authenticated raised.
health_check_unauthenticated(refreshed) ==
    Done(<<>>, OpReturn(NoCandidateResponse, <<>>, ~except_Exception(Raise(refreshed.raised))))

\* ---- An adapter instance and the operations called on it ----
Providers == {"greenhouse", "zoho_recruit", "workable"}

\* time.time() when the instance is constructed, and the steps by which time
\* passes between operations.
StartTime  == 1700000000
ClockSteps == {1, 3539}

\* The numbers of operations and of time steps of one behaviour.
MaxOps   == 2
MaxTicks == 2

NoCandidate == CandidateCreate("", "", None, "")

\* The record of an operation: what was called, the time and the token state
\* it started with, the token request it sent (if any), its client calls and
\* its result.
Operation(op, candidate, before, refreshed, x, done) ==
    [op |-> op, candidate |-> candidate, started_at |-> clock, before |-> before,
     refresh |-> IF refreshed.sent THEN x ELSE NoRefresh,
     calls |-> done.calls, result |-> done.result]

NoOperation ==
    [op |-> None, candidate |-> NoCandidate, started_at |-> 0,
     before |-> TokenState(None, 0, None), refresh |-> NoRefresh, calls |-> <<>>,
     result |-> NoResult]

CurrentTokenState == TokenState(access_token, token_expiry, session_auth)

InitAdapter ==
    /\ ad_pc = "ready"
    /\ ad_provider \in Providers
    /\ access_token = None
    /\ token_expiry = 0
    /\ session_auth = IF ad_provider = "workable" THEN WorkableAuth ELSE None
    /\ clock = StartTime
    /\ ticks = 0
    /\ ops_done = 0
    /\ last_op = NoOperation

\* Time passes between two operations.
Tick ==
    /\ ad_pc = "ready"
    /\ ticks < MaxTicks
    /\ \E step \in ClockSteps : clock' = clock + step
    /\ ticks' = ticks + 1
    /\ UNCHANGED <<ad_pc, ad_provider, access_token, token_expiry, session_auth, ops_done,
                   last_op, not_adapter>>

\* An operation of an adapter without token state: it ends in this step.
Finish(op, candidate, done) ==
    /\ last_op' = Operation(op, candidate, CurrentTokenState,
                            Refreshed(NoExc, FALSE, CurrentTokenState), NoRefresh, done)
    /\ ops_done' = ops_done + 1
    /\ UNCHANGED <<ad_pc, ad_provider, access_token, token_expiry, session_auth, clock,
                   ticks, not_adapter>>

GreenhouseCreateCandidate ==
    /\ ad_pc = "ready" /\ ops_done < MaxOps /\ ad_provider = "greenhouse"
    /\ \E candidate \in Candidates, script \in ApiScripts(GreenhouseCandidateDocs) :
          Finish("create_candidate", candidate,
                 greenhouse_create_candidate(candidate, script))

WorkableCreateCandidate ==
    /\ ad_pc = "ready" /\ ops_done < MaxOps /\ ad_provider = "workable"
    /\ \E candidate \in Candidates, script \in ApiScripts(WorkableCandidateDocs) :
          Finish("create_candidate", candidate,
                 workable_create_candidate(candidate, script))

\* GreenhouseAdapter.health_check and WorkableAdapter.health_check
HealthCheck ==
    /\ ad_pc = "ready" /\ ops_done < MaxOps /\ ad_provider \in {"greenhouse", "workable"}
    /\ \E script \in ApiScripts(HealthDocs) :
          Finish("health_check", NoCandidate,
                 health_check("jobs",
                              IF ad_provider = "greenhouse" THEN BasicAuth ELSE session_auth,
                              script))

ZohoOperations == {"get_jobs", "create_candidate", "get_applications", "health_check"}

\* The first step of every Zoho operation: _ensure_authenticated. When it
\* raises, the operation ends here: health_check returns False, the others
\* raise.
ZohoEnsureAuthenticated ==
    /\ ad_pc = "ready" /\ ops_done < MaxOps /\ ad_provider = "zoho_recruit"
    /\ \E op \in ZohoOperations, x \in RefreshExchanges :
       \E candidate \in (IF op = "create_candidate" THEN Candidates ELSE {NoCandidate}) :
         LET refreshed == refresh_access_token(CurrentTokenState, clock, x)
             failed    == refreshed.raised # NoExc
             done      == IF ~failed THEN Done(<<>>, NoResult)
                          ELSE IF op = "health_check"
                               THEN health_check_unauthenticated(refreshed)
                               ELSE Done(<<>>, OpRaise(refreshed.raised))
         IN /\ access_token' = refreshed.state.access_token
            /\ token_expiry' = refreshed.state.token_expiry
            /\ session_auth' = refreshed.state.session_auth
            /\ last_op' = Operation(op, candidate, CurrentTokenState, refreshed, x, done)
            /\ ad_pc' = IF failed THEN "ready" ELSE "call"
            /\ ops_done' = IF failed THEN ops_done + 1 ELSE ops_done
    /\ UNCHANGED <<ad_provider, clock, ticks, not_adapter>>

\* The client call of the Zoho operation in progress; create_candidate goes
\* on to its second call when the first gave a candidate id.
ZohoCall ==
    /\ ad_pc = "call"
    /\ LET op == last_op.op
           docs == CASE op = "get_jobs" -> ZohoJobDocs
                     [] op = "create_candidate" -> ZohoCandidateDocs
                     [] op = "get_applications" -> ZohoApplicationListDocs
                     [] OTHER -> HealthDocs
       IN \E script \in ApiScripts(docs), status_filter \in StatusFilters :
            LET done ==
                  CASE op = "get_jobs" -> zoho_get_jobs(status_filter, session_auth, script)
                    [] op = "create_candidate" ->
                          zoho_first_call(last_op.candidate, session_auth, script)
                    [] op = "get_applications" ->
                          zoho_get_applications("4150868000000225013", session_auth, script)
                    [] OTHER -> health_check("settings/modules", session_auth, script)
                more == done.result.tag = "none"
            IN /\ last_op' = [last_op EXCEPT !.calls = done.calls, !.result = done.result]
               /\ ad_pc' = IF more THEN "second_call" ELSE "ready"
               /\ ops_done' = IF more THEN ops_done ELSE ops_done + 1
    /\ UNCHANGED <<ad_provider, access_token, token_expiry, session_auth, clock, ticks,
                   not_adapter>>

\* The second call of ZohoRecruitAdapter.create_candidate and its response.
ZohoSecondCall ==
    /\ ad_pc = "second_call"
    /\ \E script \in ApiScripts(ZohoApplicationDocs) :
         LET done == zoho_second_call(last_op.candidate, session_auth, last_op.calls, script)
         IN last_op' = [last_op EXCEPT !.calls = done.calls, !.result = done.result]
    /\ ad_pc' = "ready"
    /\ ops_done' = ops_done + 1
    /\ UNCHANGED <<ad_provider, access_token, token_expiry, session_auth, clock, ticks,
                   not_adapter>>

NextAdapter ==
    \/ Tick
    \/ GreenhouseCreateCandidate
    \/ WorkableCreateCandidate
    \/ HealthCheck
    \/ ZohoEnsureAuthenticated
    \/ ZohoCall
    \/ ZohoSecondCall

(***************************************************************************)
(*          adapters/factory.py and the request handlers                   *)
(***************************************************************************)
\* ADAPTER_REGISTRY: a dict, that is its entries in insertion order.
RegistryEntry(name, adapter_class) == [name |-> name, adapter_class |-> adapter_class]

ADAPTER_REGISTRY ==
    << RegistryEntry("greenhouse", "GreenhouseAdapter"),
       RegistryEntry("zoho_recruit", "ZohoRecruitAdapter"),
       RegistryEntry("workable", "WorkableAdapter") >>

\* ", ".join(ADAPTER_REGISTRY.keys())
registry_keys(reg) == [i \in 1..Len(reg) |-> reg[i].name]

has_key(reg, key) == \E i \in 1..Len(reg) : reg[i].name = key

\* A registration that keeps the name as it was given.
register_adapter_as_given(reg, name, adapter_class) ==
    IF has_key(reg, name)
    THEN [i \in 1..Len(reg) |->
            IF reg[i].name = name THEN RegistryEntry(name, adapter_class) ELSE reg[i]]
    ELSE Append(reg, RegistryEntry(name, adapter_class))

\* register_adapter: ADAPTER_REGISTRY[name.lower()] = adapter_class
register_adapter(reg, name, adapter_class) ==
    IF has_key(reg, str_lower(name))
    THEN [i \in 1..Len(reg) |->
            IF reg[i].name = str_lower(name)
            THEN RegistryEntry(str_lower(name), adapter_class) ELSE reg[i]]
    ELSE Append(reg, RegistryEntry(str_lower(name), adapter_class))

\* Config.ats_provider: os.getenv("ATS_PROVIDER", "greenhouse").lower()
config_ats_provider(env) == str_lower(IF env = None THEN "greenhouse" ELSE env)

NoAdapter == [tag |-> "none", adapter_class |-> None, err |-> NoExc]

\* get_adapter: an instance of the registered class, or ValueError.
get_adapter(reg, env) ==
    LET name == str_lower(config_ats_provider(env))
    IN IF ~has_key(reg, name)
       THEN [tag |-> "raise", adapter_class |-> None,
             err |-> PyError("ValueError",
                       "Unsupported ATS provider: " \o name \o ". "
                       \o "Supported providers: " \o join(registry_keys(reg)))]
       ELSE [tag |-> "return",
             adapter_class |-> reg[CHOOSE i \in 1..Len(reg) : reg[i].name = name]
                                  .adapter_class,
             err |-> NoExc]

\* The values of ATS_PROVIDER, the names and classes of register_adapter.
EnvProviders    == {None, "Greenhouse", "LEVER", "bamboohr"}
RegisteredNames == {"Lever", "GREENHOUSE"}
AdapterClasses  == {"LeverAdapter", "MockAdapter"}

\* ValidationError(message)
ValidationError(message) == Exc("ValidationError", message, "VALIDATION_ERROR", FALSE, 400, -1, 0)

\* format_success_response(data, status_code=201)
format_created_response(data) == [format_success_response(data) EXCEPT !.statusCode = 201]

\* The event of a request. queryStringParameters is missing, null or a dict
\* given by the value of its job_id; body is missing, null, a string or a
\* dict, given by the document it holds.
Event(query, body) == [query |-> query, body |-> body]

Query(t, job_id) == [t |-> t, job_id |-> job_id]

Body(t, doc) == [t |-> t, doc |-> doc]

Queries ==
    {Query("missing", JMissing), Query("null", JMissing), Query("dict", JMissing),
     Query("dict", JStr("")), Query("dict", JStr("123456"))}

BodyDocs ==
    {"", "not valid json", "{}", "name_only", "empty_name", "complete", "array"}

Bodies ==
    {Body("missing", ""), Body("null", "")}
    \cup {Body("str", doc) : doc \in BodyDocs}
    \cup {Body("dict", doc) : doc \in {"{}", "complete"}}

\* json.loads(body): the fields of the object, or what it is instead.
json_loads(doc) ==
    CASE doc = "{}" ->
            [t |-> "dict", name |-> JMissing, email |-> JMissing, job_id |-> JMissing]
      [] doc = "name_only" ->
            [t |-> "dict", name |-> JStr("John Doe"), email |-> JMissing,
             job_id |-> JMissing]
      [] doc = "empty_name" ->
            [t |-> "dict", name |-> JStr(""), email |-> JStr("john@example.com"),
             job_id |-> JStr("123456")]
      [] doc = "complete" ->
            [t |-> "dict", name |-> JStr("John Doe"), email |-> JStr("john@example.com"),
             job_id |-> JStr("123456")]
      [] doc = "array" ->
            [t |-> "list", name |-> JMissing, email |-> JMissing, job_id |-> JMissing]
      [] OTHER ->
            [t |-> "JSONDecodeError", name |-> JMissing, email |-> JMissing,
             job_id |-> JMissing]

\* CandidateCreate(**body_data): name (min_length 1), email and job_id are
\* required strings.
candidate_is_valid(data) ==
    /\ data.name.t = "str" /\ Len(data.name.s) >= 1
    /\ data.email.t = "str"
    /\ data.job_id.t = "str"

\* What the adapter operation of a handler gives: its result or an exception.
AdapterOutcomes ==
    {OpReturn(NoCandidateResponse, <<>>, FALSE),
     OpRaise(ATSAuthenticationError("Invalid API credentials", 1))}

\* What a handler did: the adapter it resolved (if it came to that), the
\* number of adapter operations it called, and its response.
Handled(adapter, provider_calls, response) ==
    [adapter |-> adapter, provider_calls |-> provider_calls, response |-> response]

\* Lines 71-81 of candidates.py and 50-64 of applications.py: get_adapter, the
\* adapter operation, the response; any exception is formatted.
resolve_and_call(reg, env, result, success) ==
    LET adapter == get_adapter(reg, env)
    IN IF adapter.tag = "raise"
       THEN Handled(adapter, 0, format_error_response(adapter.err))
       ELSE IF result.tag = "raise"
            THEN Handled(adapter, 1, format_error_response(result.err))
            ELSE Handled(adapter, 1, success)

\* A job_id test that lets the empty string through.
job_id_given_or_empty(query) == query.t = "dict" /\ query.job_id.t # "missing"

\* Lines 40-44 of applications.py: query_params.get("job_id") is truthy.
job_id_given(query) == query.t = "dict" /\ truthy(get_or_none(query.job_id))

\* handlers/applications.py: get_applications(event, context)
get_applications_handler(event, reg, env, result) ==
    IF ~job_id_given(event.query)
    THEN Handled(NoAdapter, 0,
                 format_error_response(ValidationError("job_id query parameter is required")))
    ELSE resolve_and_call(reg, env, result, format_success_response("applications"))

\* not body: the body is missing, None, the empty string or the empty dict.
not_body(body) ==
    \/ body.t \in {"missing", "null"}
    \/ body.t = "str" /\ body.doc = ""
    \/ body.t = "dict" /\ body.doc = "{}"

\* handlers/candidates.py: create_candidate(event, context)
create_candidate_handler(event, reg, env, result) ==
    LET body == event.body
        body_data == json_loads(body.doc)
    IN IF not_body(body)
       THEN Handled(NoAdapter, 0,
                    format_error_response(ValidationError("Request body is required")))
       ELSE IF body.t = "str" /\ body_data.t = "JSONDecodeError"
       THEN Handled(NoAdapter, 0,
                    format_error_response(ValidationError("Invalid JSON in request body")))
       ELSE IF body_data.t # "dict"
       THEN Handled(NoAdapter, 0,
                    format_error_response(PyError("TypeError",
                        "argument after ** must be a mapping, not list")))
       ELSE IF ~candidate_is_valid(body_data)
       THEN Handled(NoAdapter, 0, format_error_response(ValidationError("Validation failed")))
       ELSE resolve_and_call(reg, env, result, format_created_response("candidate"))

\* ---- The service: the registry, the configuration, the requests ----
MaxRegistrations == 2
MaxRequests      == 2

NoEvent == Event(Query("missing", JMissing), Body("missing", ""))

Request(kind, event, handled) ==
    [kind |-> kind, event |-> event, registry_before |-> registry,
     registrations_before |-> registrations, constructed_before |-> constructed,
     adapter |-> handled.adapter, provider_calls |-> handled.provider_calls,
     response |-> handled.response]

NoRequest ==
    [kind |-> None, event |-> NoEvent, registry_before |-> <<>>,
     registrations_before |-> <<>>, constructed_before |-> <<>>,
     adapter |-> NoAdapter, provider_calls |-> 0, response |-> NoResponse]

InitService ==
    /\ registry = ADAPTER_REGISTRY
    /\ ats_provider_env \in EnvProviders
    /\ registrations = <<>>
    /\ constructed = <<>>
    /\ requests_done = 0
    /\ last_request = NoRequest

\* register_adapter(name, adapter_class)
RegisterAdapter ==
    /\ Len(registrations) < MaxRegistrations
    /\ \E name \in RegisteredNames, adapter_class \in AdapterClasses :
         /\ registry' = register_adapter(registry, name, adapter_class)
         /\ registrations' = Append(registrations, RegistryEntry(name, adapter_class))
    /\ UNCHANGED <<ats_provider_env, constructed, requests_done, last_request, not_service>>

\* A request ends: the adapter class that was instantiated, if any, and the
\* record of the request.
Respond(kind, event, handled) ==
    /\ constructed' = IF handled.adapter.tag = "return"
                      THEN Append(constructed, handled.adapter.adapter_class)
                      ELSE constructed
    /\ last_request' = Request(kind, event, handled)
    /\ requests_done' = requests_done + 1
    /\ UNCHANGED <<registry, ats_provider_env, registrations, not_service>>

\* get_adapter() called on its own.
GetAdapter ==
    /\ requests_done < MaxRequests
    /\ Respond("get_adapter", NoEvent,
               Handled(get_adapter(registry, ats_provider_env), 0, NoResponse))

\* GET /applications
GetApplicationsHandler ==
    /\ requests_done < MaxRequests
    /\ \E query \in Queries, result \in AdapterOutcomes :
         LET event == Event(query, Body("missing", ""))
         IN Respond("get_applications", event,
                    get_applications_handler(event, registry, ats_provider_env, result))

\* POST /candidates
CreateCandidateHandler ==
    /\ requests_done < MaxRequests
    /\ \E body \in Bodies, result \in AdapterOutcomes :
         LET event == Event(Query("missing", JMissing), body)
         IN Respond("create_candidate", event,
                    create_candidate_handler(event, registry, ats_provider_env, result))

NextService ==
    \/ RegisterAdapter
    \/ GetAdapter
    \/ GetApplicationsHandler
    \/ CreateCandidateHandler

(***************************************************************************)
(*     handlers/candidates.py on the adapters: a request end to end        *)
(***************************************************************************)
\* The provider answers every attempt of a call alike.
AlikeScripts(docs) == {[i \in 1..StopAfterAttempt |-> x] : x \in ApiExchanges(docs)}

\* The script of a call that was not made.
NoScript == [i \in 1..StopAfterAttempt |-> Raised("none")]

\* ZohoRecruitAdapter.create_candidate with a cached, fresh token: the first
\* call and, when it gave a candidate id, the second.
zoho_create_candidate(candidate, auth, script, script2) ==
    LET first == zoho_first_call(candidate, auth, script)
    IN IF first.result.tag = "none"
       THEN zoho_second_call(candidate, auth, first.calls, script2)
       ELSE first

\* adapter.create_candidate(candidate_data) of the configured provider.
adapter_create_candidate(name, candidate, script, script2) ==
    CASE name = "greenhouse" -> greenhouse_create_candidate(candidate, script)
      [] name = "workable"   -> workable_create_candidate(candidate, script)
      [] OTHER -> zoho_create_candidate(candidate, ZohoAuth("1000.token_A"), script, script2)

\* Lines 71-87 of candidates.py after validation: the adapter operation, then
\* format_success_response, and format_error_response for any exception.
respond_create_candidate(result) ==
    IF result.tag = "raise"
    THEN format_error_response(result.err)
    ELSE format_created_response("candidate")

\* The documents a provider answers the first POST with.
CandidateDocs(name) ==
    CASE name = "greenhouse" -> GreenhouseCandidateDocs
      [] name = "workable"   -> WorkableCandidateDocs
      [] OTHER               -> ZohoCandidateDocs \cup {"zo_mandatory"}

\* A handled request: the provider, the validated candidate, what the provider
\* answered to each call, what the adapter operation gave and the response.
Report(name, candidate, script, script2, done) ==
    [provider |-> name, candidate |-> candidate, script |-> script, script2 |-> script2,
     sent |-> [i \in 1..Len(done.calls) |-> done.calls[i].sent],
     result |-> done.result, response |-> respond_create_candidate(done.result)]

NoReport ==
    [provider |-> None, candidate |-> NoCandidate, script |-> NoScript,
     script2 |-> NoScript, sent |-> <<>>, result |-> NoResult, response |-> NoResponse]

InitBoundary ==
    /\ prev_report = NoReport
    /\ last_report = NoReport

\* POST /candidates with a valid body, on the configured provider.
HandleCreateCandidate ==
    \E name \in Providers, candidate \in Candidates :
      \E script \in AlikeScripts(CandidateDocs(name)) :
        \E script2 \in (IF name = "zoho_recruit"
                           /\ zoho_first_call(candidate, ZohoAuth("1000.token_A"),
                                              script).result.tag = "none"
                        THEN AlikeScripts(ZohoApplicationDocs) ELSE {NoScript}) :
          /\ last_report' = Report(name, candidate, script, script2,
                                   adapter_create_candidate(name, candidate, script, script2))
          /\ prev_report' = last_report
          /\ UNCHANGED not_boundary

NextBoundary ==
    \/ HandleCreateCandidate

(***************************************************************************)
(*        adapters: _extract_first_name / _extract_last_name               *)
(***************************************************************************)
\* str.isspace() of one character.
is_space(c) == c \in {" ", "\t"}

\* text.lstrip(), text.rstrip(), text.strip()
RECURSIVE lstrip(_)
lstrip(text) ==
    IF Len(text) > 0 /\ is_space(SubSeq(text, 1, 1))
    THEN lstrip(SubSeq(text, 2, Len(text)))
    ELSE text

RECURSIVE rstrip(_)
rstrip(text) ==
    IF Len(text) > 0 /\ is_space(SubSeq(text, Len(text), Len(text)))
    THEN rstrip(SubSeq(text, 1, Len(text) - 1))
    ELSE text

strip(text) == rstrip(lstrip(text))

\* The length of the run of characters at the front of text that are not
\* whitespace.
RECURSIVE word_length(_)
word_length(text) ==
    IF Len(text) = 0 \/ is_space(SubSeq(text, 1, 1)) THEN 0
    ELSE 1 + word_length(SubSeq(text, 2, Len(text)))

\* text.split(): the runs of characters between runs of whitespace.
RECURSIVE split(_)
split(text) ==
    LET rest == lstrip(text)
        n    == word_length(rest)
    IN IF Len(rest) = 0 THEN <<>>
       ELSE <<SubSeq(rest, 1, n)>> \o split(SubSeq(rest, n + 1, Len(rest)))

\* " " in text
has_blank(text) == \E i \in 1..Len(text) : SubSeq(text, i, i) = " "

\* text.split(" ", 1): the text before the first blank and the text after it.
split_once(text) ==
    IF ~has_blank(text) THEN <<text>>
    ELSE LET i == CHOOSE k \in 1..Len(text) :
                     /\ SubSeq(text, k, k) = " "
                     /\ \A j \in 1..(k - 1) : SubSeq(text, j, j) # " "
         IN <<SubSeq(text, 1, i - 1), SubSeq(text, i + 1, Len(text))>>

\* " ".join(parts)
RECURSIVE join_blank(_)
join_blank(parts) ==
    IF Len(parts) = 0 THEN ""
    ELSE IF Len(parts) = 1 THEN parts[1]
    ELSE parts[1] \o " " \o join_blank(Tail(parts))

\* GreenhouseAdapter._extract_first_name / _extract_last_name
greenhouse_extract_first_name(name) ==
    LET parts == split(strip(name))
    IN IF Len(parts) > 0 THEN parts[1] ELSE name

greenhouse_extract_last_name(name) ==
    LET parts == split(strip(name))
    IN IF Len(parts) > 1 THEN join_blank(Tail(parts)) ELSE ""

\* ZohoRecruitAdapter._extract_first_name / _extract_last_name
zoho_extract_first_name(name) ==
    IF has_blank(name) THEN split_once(name)[1] ELSE name

zoho_extract_last_name(name) ==
    IF has_blank(name) THEN split_once(name)[2] ELSE "."

\* Candidate names: the strings of one to MaxNameLen characters over two
\* letters, the blank and the tab.
MaxNameLen == 4

NameChars == {"J", "d", " ", "\t"}

RECURSIVE NamesOfLen(_)
NamesOfLen(n) ==
    IF n = 0 THEN {""} ELSE {t \o c : t \in NamesOfLen(n - 1), c \in NameChars}

Names == UNION {NamesOfLen(n) : n \in 1..MaxNameLen}

Extracted(first_name, last_name) == [first_name |-> first_name, last_name |-> last_name]

NoNames == Extracted(None, None)

InitNames ==
    /\ nm_pc = "init"
    /\ nm_provider = None
    /\ full_name \in Names
    /\ extracted = NoNames

\* Lines 165-166 of greenhouse.py: the names of the candidate payload.
GreenhouseExtractNames ==
    /\ nm_pc = "init"
    /\ nm_pc' = "done"
    /\ nm_provider' = "greenhouse"
    /\ extracted' = Extracted(greenhouse_extract_first_name(full_name),
                              greenhouse_extract_last_name(full_name))
    /\ UNCHANGED <<full_name, not_names>>

\* Lines 113-114 of zoho_recruit.py: First_Name and Last_Name of the record.
ZohoExtractNames ==
    /\ nm_pc = "init"
    /\ nm_pc' = "done"
    /\ nm_provider' = "zoho_recruit"
    /\ extracted' = Extracted(zoho_extract_first_name(full_name),
                              zoho_extract_last_name(full_name))
    /\ UNCHANGED <<full_name, not_names>>

NextNames ==
    \/ GreenhouseExtractNames
    \/ ZohoExtractNames

(***************************************************************************)
(*   adapters/zoho_recruit.py: one instance shared by concurrent callers   *)
(***************************************************************************)
\* The callers that run an operation on the instance at the same time. Each
\* runs _ensure_authenticated and then its client call; the statements of
\* _refresh_access_token that read or write the instance are the steps, and
\* the callers' steps interleave in any order (the code takes no lock).
Callers == {1, 2}

\* The token state the callers find: no token yet, or a token past its
\* expiry.
FoundTokenStates ==
    {TokenState(None, 0, None),
     TokenState("tok0", StartTime - 1, ZohoAuth("tok0"))}

\* The token the accounts endpoint gives to the n-th request.
TokenOfRequest(n) == "tok" \o ToString(n)

\* Whether the three fields of the token state come from the same refresh.
half_updated(written) ==
    ~(written.access_token = written.token_expiry
      /\ written.token_expiry = written.session_auth)

\* A request to the Recruit API as it was sent: the session header at that
\* moment and whether the token state was half-updated.
ApiRequest(caller, auth, written) ==
    [caller |-> caller, auth |-> auth, half_updated |-> half_updated(written)]

InitShared ==
    /\ caller_pc = [c \in Callers |-> "start"]
    /\ caller_data = [c \in Callers |-> None]
    /\ shared_token \in FoundTokenStates
    /\ written_by = TokenState(0, 0, 0)
    /\ token_requests = <<>>
    /\ api_requests = <<>>

\* Line 44: the staleness test.
CallerChecksToken ==
    \E c \in Callers :
      /\ caller_pc[c] = "start"
      /\ caller_pc' = [caller_pc EXCEPT
                          ![c] = IF token_is_fresh(shared_token, StartTime)
                                 THEN "call" ELSE "request_token"]
      /\ UNCHANGED <<caller_data, shared_token, written_by, token_requests, api_requests,
                     not_shared>>

\* Lines 52-70: the token request and its answer, which gives a token or is
\* rejected (the caller raises).
CallerRequestsToken ==
    \E c \in Callers, granted \in BOOLEAN :
      /\ caller_pc[c] = "request_token"
      /\ token_requests' = Append(token_requests, c)
      /\ caller_data' = [caller_data EXCEPT
                            ![c] = IF granted THEN TokenOfRequest(Len(token_requests) + 1)
                                   ELSE None]
      /\ caller_pc' = [caller_pc EXCEPT ![c] = IF granted THEN "set_token" ELSE "raised"]
      /\ UNCHANGED <<shared_token, written_by, api_requests, not_shared>>

\* Line 72: self.access_token = data["access_token"]
CallerSetsToken ==
    \E c \in Callers :
      /\ caller_pc[c] = "set_token"
      /\ shared_token' = [shared_token EXCEPT !.access_token = caller_data[c]]
      /\ written_by' = [written_by EXCEPT !.access_token = c]
      /\ caller_pc' = [caller_pc EXCEPT ![c] = "set_expiry"]
      /\ UNCHANGED <<caller_data, token_requests, api_requests, not_shared>>

\* Line 74: self.token_expiry = time.time() + data.get("expires_in", 3600)
CallerSetsExpiry ==
    \E c \in Callers :
      /\ caller_pc[c] = "set_expiry"
      /\ shared_token' = [shared_token EXCEPT !.token_expiry = StartTime + DefaultExpiresIn]
      /\ written_by' = [written_by EXCEPT !.token_expiry = c]
      /\ caller_pc' = [caller_pc EXCEPT ![c] = "set_header"]
      /\ UNCHANGED <<caller_data, token_requests, api_requests, not_shared>>

\* Lines 77-79: the session header, built from self.access_token as it is now.
CallerSetsHeader ==
    \E c \in Callers :
      /\ caller_pc[c] = "set_header"
      /\ shared_token' = [shared_token EXCEPT
                             !.session_auth = ZohoAuth(shared_token.access_token)]
      /\ written_by' = [written_by EXCEPT !.session_auth = written_by.access_token]
      /\ caller_pc' = [caller_pc EXCEPT ![c] = "call"]
      /\ UNCHANGED <<caller_data, token_requests, api_requests, not_shared>>

\* The client call of the operation: the request goes out with the session
\* header as it is at that moment.
CallerSendsApiRequest ==
    \E c \in Callers :
      /\ caller_pc[c] = "call"
      /\ api_requests' = Append(api_requests,
                                ApiRequest(c, shared_token.session_auth, written_by))
      /\ caller_pc' = [caller_pc EXCEPT ![c] = "done"]
      /\ UNCHANGED <<caller_data, shared_token, written_by, token_requests, not_shared>>

NextShared ==
    \/ CallerChecksToken
    \/ CallerRequestsToken
    \/ CallerSetsToken
    \/ CallerSetsExpiry
    \/ CallerSetsHeader
    \/ CallerSendsApiRequest

(***************************************************************************)
(*            Idle values of the components a specification leaves out     *)
(***************************************************************************)
IdleTransport == InitTransport

IdlePaginate ==
    /\ pg_pc = "idle"
    /\ initial_params = <<>>
    /\ max_pages = 0
    /\ page_size = 0
    /\ params = <<>>
    /\ all_items = <<>>
    /\ page_count = 0
    /\ next_url = NoUrl
    /\ warned = FALSE
    /\ fetch_calls = <<>>
    /\ pages = <<>>
    /\ pg_result = <<>>
    /\ pg_error = NoExc

IdleOffset ==
    /\ off_pc = "idle"
    /\ off_page_size = 0
    /\ max_items = 0
    /\ offset = 0
    /\ off_items = <<>>
    /\ off_calls = <<>>
    /\ off_pages = <<>>
    /\ off_result = <<>>

IdleNormalize ==
    /\ nj_pc = "idle"
    /\ provider = None
    /\ raw_job = None
    /\ job = NoJob

IdleApplication ==
    /\ na_pc = "idle"
    /\ raw_app = None
    /\ application_status = None

\* The components modelled first, and those modelled after them, all idle.
IdleFirst == IdleTransport /\ IdlePaginate /\ IdleOffset /\ IdleNormalize

IdleAdapter ==
    /\ ad_pc = "idle"
    /\ ad_provider = None
    /\ access_token = None
    /\ token_expiry = 0
    /\ session_auth = None
    /\ clock = 0
    /\ ticks = 0
    /\ ops_done = 0
    /\ last_op = NoOperation

IdleService ==
    /\ registry = <<>>
    /\ ats_provider_env = None
    /\ registrations = <<>>
    /\ constructed = <<>>
    /\ requests_done = 0
    /\ last_request = NoRequest

IdleLater == IdleApplication /\ IdleAdapter /\ IdleService

IdleBoundary ==
    /\ prev_report = NoReport
    /\ last_report = NoReport

IdleNames ==
    /\ nm_pc = "idle"
    /\ nm_provider = None
    /\ full_name = ""
    /\ extracted = NoNames

IdleShared ==
    /\ caller_pc = <<>>
    /\ caller_data = <<>>
    /\ shared_token = TokenState(None, 0, None)
    /\ written_by = TokenState(0, 0, 0)
    /\ token_requests = <<>>
    /\ api_requests = <<>>

IdleLast == IdleBoundary /\ IdleNames /\ IdleShared

(***************************************************************************)
(*                            Specifications                               *)
(***************************************************************************)
InitT == InitTransport /\ IdlePaginate /\ IdleOffset /\ IdleNormalize /\ IdleLater /\ IdleLast

SpecTransport == InitT /\ [][NextTransport]_vars

InitP == InitPaginate /\ IdleTransport /\ IdleOffset /\ IdleNormalize /\ IdleLater /\ IdleLast

SpecPaginate == InitP /\ [][NextPaginate]_vars

InitO == InitOffset /\ IdleTransport /\ IdlePaginate /\ IdleNormalize /\ IdleLater /\ IdleLast

SpecOffset == InitO /\ [][NextOffset]_vars

InitN == InitNormalize /\ IdleTransport /\ IdlePaginate /\ IdleOffset /\ IdleLater /\ IdleLast

SpecNormalize == InitN /\ [][NextNormalize]_vars

InitA == InitApplication /\ IdleFirst /\ IdleAdapter /\ IdleService /\ IdleLast

SpecApplication == InitA /\ [][NextApplication]_vars

InitAd == InitAdapter /\ IdleFirst /\ IdleApplication /\ IdleService /\ IdleLast

SpecAdapter == InitAd /\ [][NextAdapter]_vars

InitS == InitService /\ IdleFirst /\ IdleApplication /\ IdleAdapter /\ IdleLast

SpecService == InitS /\ [][NextService]_vars

InitB == InitBoundary /\ IdleFirst /\ IdleLater /\ IdleNames /\ IdleShared

SpecBoundary == InitB /\ [][NextBoundary]_vars

InitNm == InitNames /\ IdleFirst /\ IdleLater /\ IdleBoundary /\ IdleShared

SpecNames == InitNm /\ [][NextNames]_vars

InitSh == InitShared /\ IdleFirst /\ IdleLater /\ IdleBoundary /\ IdleNames

SpecShared == InitSh /\ [][NextShared]_vars

(***************************************************************************)
(*                         Claims: Transport                               *)
(***************************************************************************)
\* The classes of one exchange, read off the exchange itself.
IsRetryableExchange(x) ==
    x.kind = "Timeout" \/ (x.kind = "response" /\ x.status_code >= 500)

IsSuccessExchange(x) ==
    x.kind = "response" /\ x.status_code < 400 /\ x.content.kind # "not_json"

IsConnectionFailure(x) == x.kind \in {"ConnectionError", "RequestException"}

IsTerminalExchange(x) ==
    IsConnectionFailure(x) \/ (x.kind = "response" /\ x.status_code \in 400..499)

Terminated == http_pc \in {"done", "responded"}

\* C1: when every attempt of a request ends in a retryable outcome (timeout or
\* status >= 500), exactly 3 attempts are made and the caller gets the third
\* attempt's RetryableError itself: not wrapped, not swallowed, not a success.
C1_ExhaustedRetriesReraiseThird ==
    /\ Len(attempts) <= 3
    /\ (Terminated /\ \A i \in 1..Len(attempts) : IsRetryableExchange(attempts[i].exchange))
        => /\ Len(attempts) = 3
           /\ outcome.tag = "raise"
           /\ outcome = attempts[3].out
           /\ outcome.err.type = "RetryableError"
           /\ outcome.err.attempt = 3

C1_Witness ==
    /\ http_pc = "done"
    /\ Len(attempts) = 3
    /\ \A i \in 1..3 : IsRetryableExchange(attempts[i].exchange)
    /\ attempts[1].exchange.kind = "Timeout"
    /\ attempts[3].exchange.status_code = 503
    /\ outcome.tag = "raise"

\* The body and headers a successful exchange stands for.
ExpectedBody(x) == IF x.content.kind = "empty" THEN EmptyDict ELSE x.content.doc

\* C2: when the first k attempts (k = 1 or 2) end in a retryable outcome and
\* attempt k+1 succeeds, the call goes on to attempt k+1, makes no further
\* attempt, and returns the parsed body and headers of attempt k+1.
C2_RecoversAfterRetryableAttempts ==
    \A k \in {1, 2} :
        (Len(attempts) >= k /\ \A i \in 1..k : IsRetryableExchange(attempts[i].exchange))
        => /\ Terminated => Len(attempts) > k
           /\ (Len(attempts) >= k + 1 /\ IsSuccessExchange(attempts[k + 1].exchange))
               => /\ Len(attempts) = k + 1
                  /\ Terminated
                  /\ outcome.tag = "return"
                  /\ outcome.body = ExpectedBody(attempts[k + 1].exchange)
                  /\ outcome.headers = ResponseHeaders(attempts[k + 1].exchange)

C2_Witness ==
    /\ http_pc = "done"
    /\ Len(attempts) = 3
    /\ attempts[1].exchange.status_code = 500
    /\ attempts[2].exchange.status_code = 503
    /\ IsSuccessExchange(attempts[3].exchange)
    /\ outcome.tag = "return"
    /\ outcome.body = "docA"

\* The classification the claim gives a terminal exchange.
ExpectedClass(x) ==
    IF IsConnectionFailure(x) THEN "ATSConnectionError"
    ELSE IF x.status_code = 429 THEN "ATSRateLimitError"
    ELSE IF x.status_code \in {401, 403} THEN "ATSAuthenticationError"
    ELSE "ATSError"

\* C3: an attempt that ends in 429, 401, 403, another 4xx status or a
\* connection failure is the last attempt of its request, and its error is
\* raised to the caller with the classification of that outcome.
C3_TerminalErrorsNeverRetried ==
    \A i \in 1..Len(attempts) :
        IsTerminalExchange(attempts[i].exchange)
        => /\ i = Len(attempts)
           /\ Terminated
           /\ outcome.tag = "raise"
           /\ outcome = attempts[i].out
           /\ outcome.err.type = ExpectedClass(attempts[i].exchange)

\* C4: every response status is classified with this precedence: 429 ->
\* rate-limit error with retry_after = the Retry-After value (60 when absent);
\* 401/403 -> authentication error; >= 500 -> retryable error; other >= 400 ->
\* non-retryable ATSError with that status code; < 400 -> success (stated here
\* for a body that is empty or JSON).
C4_StatusClassification ==
    \A i \in 1..Len(attempts) :
        LET x   == attempts[i].exchange
            out == attempts[i].out
        IN x.kind = "response" =>
            IF x.status_code = 429
            THEN /\ out.tag = "raise"
                 /\ out.err.type = "ATSRateLimitError"
                 /\ x.retry_after = Absent => out.err.retry_after = 60
                 /\ IsIntLiteral(x.retry_after)
                        => out.err.retry_after = DecimalValue(x.retry_after)
            ELSE IF x.status_code \in {401, 403}
            THEN out.tag = "raise" /\ out.err.type = "ATSAuthenticationError"
            ELSE IF x.status_code >= 500
            THEN out.tag = "raise" /\ out.err.type = "RetryableError"
            ELSE IF x.status_code >= 400
            THEN /\ out.tag = "raise"
                 /\ out.err.type = "ATSError"
                 /\ out.err.retryable = FALSE
                 /\ out.err.status_code = x.status_code
            ELSE x.content.kind # "not_json" => out.tag = "return"

\* C5: the retryable flag of the failure the caller receives is true when the
\* request failed by timeout, status >= 500 (retries exhausted), 429 or
\* connection failure, and false when it failed by 401/403 or another 4xx
\* (429 is stated here for a Retry-After that is absent or an integer).
C5_RetryableFlagAgrees ==
    (http_pc = "responded" /\ outcome.tag = "raise")
    => LET x == attempts[Len(attempts)].exchange
       IN IF \/ IsRetryableExchange(x)
             \/ IsConnectionFailure(x)
             \/ /\ x.kind = "response" /\ x.status_code = 429
                /\ (x.retry_after = Absent \/ IsIntLiteral(x.retry_after))
          THEN handler_response.retryable = TRUE
          ELSE (x.kind = "response" /\ x.status_code \in 400..499)
                   => handler_response.retryable = FALSE

(***************************************************************************)
(*                         Claims: pagination                              *)
(***************************************************************************)
\* Whether an entry of a Link header has the relation next.
IsNextEntry(link) == \E i \in 1..Len(link.rest) : link.rest[i] \in {RelNext, RelNextSq}

\* A page carries a Link header (key Link or link) with rel="next".
CarriesLinkNext(headers) ==
    \E k \in DOMAIN headers \cap {"Link", "link"} :
        \E i \in 1..Len(headers[k]) : IsNextEntry(headers[k][i])

\* A page carries no next link, whatever the letter case of the header key.
CarriesNoNext(headers) ==
    \A k \in DOMAIN headers : \A i \in 1..Len(headers[k]) : ~IsNextEntry(headers[k][i])

\* The items of a sequence of pages, in page order.
RECURSIVE Concatenation(_)
Concatenation(ps) ==
    IF ps = <<>> THEN <<>> ELSE Head(ps).items \o Concatenation(Tail(ps))

\* C6: for k <= max_pages pages of which pages 1..k-1 carry a Link header with
\* rel="next" and page k carries none, fetch_func is called exactly k times
\* (the loop goes on after each of the first k-1 pages and stops at page k) and
\* the result is the pages' items in page order and in each page's own order.
C6_PaginateConcatenatesPages ==
    LET k == Len(pages)
    IN /\ (/\ k >= 1 /\ k < max_pages
           /\ \A i \in 1..k : CarriesLinkNext(pages[i].headers)
           /\ pg_pc # "raised")
          => pg_pc = "loop" /\ Len(fetch_calls) = k
       /\ (/\ k >= 1 /\ k <= max_pages
           /\ \A i \in 1..(k - 1) : CarriesLinkNext(pages[i].headers)
           /\ CarriesNoNext(pages[k].headers))
          => /\ pg_pc = "done"
             /\ Len(fetch_calls) = k
             /\ page_count = k
             /\ pg_result = Concatenation(pages)

C6_Witness ==
    /\ pg_pc = "done"
    /\ max_pages = 3
    /\ Len(pages) = 2
    /\ CarriesLinkNext(pages[1].headers)
    /\ CarriesNoNext(pages[2].headers)
    /\ pg_result = <<"c", "a", "b">>

\* C7: with max_pages = N and a next link on every page, fetch_func is called
\* exactly N times, the call then ends (nothing is raised), returns the items
\* of those N pages and records the max-page warning.
C7_MaxPagesCeiling ==
    /\ Len(pages) <= max_pages
    /\ (\A i \in 1..Len(pages) : CarriesLinkNext(pages[i].headers))
       => /\ pg_pc = "done" <=> Len(pages) = max_pages
          /\ pg_pc = "done"
             => /\ Len(fetch_calls) = max_pages
                /\ pg_result = Concatenation(pages)
                /\ warned

C7_Witness ==
    /\ pg_pc = "done"
    /\ max_pages = 3
    /\ Len(pages) = 3
    /\ \A i \in 1..3 : CarriesLinkNext(pages[i].headers)
    /\ Len(pg_result) = 5
    /\ warned

\* The Link header of a response, its key compared case-insensitively.
LinkHeaderAnyCase(headers) ==
    IF \E k \in DOMAIN headers : k \in {"Link", "link", "LINK"}
    THEN headers[CHOOSE k \in DOMAIN headers : k \in {"Link", "link", "LINK"}]
    ELSE <<>>

\* The URL of the entry with relation next, wherever it stands in the header.
NextEntryUrl(links) ==
    IF \E i \in 1..Len(links) : IsNextEntry(links[i])
    THEN links[CHOOSE i \in 1..Len(links) :
                  IsNextEntry(links[i]) /\ \A j \in 1..(i - 1) : ~IsNextEntry(links[j])
              ].url_part.url
    ELSE NoUrl

\* C8: _get_next_page_url finds the Link header whatever the letter case of
\* its key and returns the URL of the entry whose relation is next, whichever
\* position it has; it returns None exactly when there is no such entry.
C8_NextUrlAnyKeyCase ==
    Len(pages) >= 1
    => next_url = NextEntryUrl(LinkHeaderAnyCase(pages[Len(pages)].headers))

\* The number of items the first i pages returned.
RECURSIVE ItemsUpTo(_, _)
ItemsUpTo(ps, i) == IF i = 0 THEN 0 ELSE ItemsUpTo(ps, i - 1) + ps[i].n

\* C9: paginate_with_offset stops after the first empty page or as soon as the
\* accumulated offset is >= the total reported with the last page; every
\* fetch_func call gets an offset equal to the number of items accumulated so
\* far; and the returned list never holds more than max_items items.
C9_OffsetPaginationBounded ==
    /\ \A i \in 1..Len(off_pages) :
          (off_pages[i].n = 0 \/ ItemsUpTo(off_pages, i) >= off_pages[i].total)
          => i = Len(off_pages) /\ off_pc = "done"
    /\ \A i \in 1..Len(off_calls) : off_calls[i].offset = off_calls[i].accumulated
    /\ off_pc = "done" => Len(off_result) <= max_items

(***************************************************************************)
(*                         Claims: normalisation                           *)
(***************************************************************************)
\* The raw status of a job payload, and whether the provider's table has it
\* (Greenhouse looks its status up in lower case).
RawJobStatus ==
    CASE provider = "greenhouse"   -> raw_job.status
      [] provider = "zoho_recruit" -> raw_job.Job_Opening_Status
      [] provider = "workable"     -> raw_job.state

StatusInTable ==
    /\ RawJobStatus.t = "str"
    /\ CASE provider = "greenhouse" ->
               \E kv \in GreenhouseJobStatusMap : kv[1] = lower(RawJobStatus.s)
         [] provider = "zoho_recruit" ->
               \E kv \in ZohoJobStatusMap : kv[1] = RawJobStatus.s
         [] provider = "workable" ->
               \E kv \in WorkableJobStatusMap : kv[1] = RawJobStatus.s

\* C10: for each of the three adapters the Job that _normalize_job builds has
\* a status among OPEN, CLOSED, DRAFT, and a raw status that is not in the
\* provider's mapping table, or is missing from the payload, gives DRAFT.
C10_UnmappedStatusIsDraft ==
    (nj_pc = "done" /\ job.tag = "job")
    => /\ job.status \in {"OPEN", "CLOSED", "DRAFT"}
       /\ ~StatusInTable => job.status = "DRAFT"

(***************************************************************************)
(*                    Claims: application status, location                 *)
(***************************************************************************)
\* What the payload says, read off the payload itself.
HasRejectionMarker == raw_app.rejected_at.t = "str" /\ raw_app.rejected_at.s # ""

RawStageName ==
    IF raw_app.current_stage.t = "dict" /\ raw_app.current_stage.name.t = "str"
    THEN str_lower(raw_app.current_stage.name.s)
    ELSE ""

HasHiredMarker ==
    \/ raw_app.status.t = "str" /\ str_lower(raw_app.status.s) = "hired"
    \/ contains("hired", RawStageName)

StageTableMatches ==
    {i \in 1..Len(APPLICATION_STATUS_MAP) :
        contains(APPLICATION_STATUS_MAP[i][1], RawStageName)}

\* C11: _determine_application_status returns one of APPLIED, SCREENING,
\* REJECTED, HIRED; a non-empty rejected_at gives REJECTED whatever the stage
\* name and the hired flag; otherwise a hired status or a stage name containing
\* "hired" gives HIRED before the stage table is looked at; otherwise an entry
\* of the stage table that matches the stage name decides; otherwise APPLIED.
C11_ApplicationStatusPrecedence ==
    na_pc = "done"
    => /\ application_status \in {"APPLIED", "SCREENING", "REJECTED", "HIRED"}
       /\ HasRejectionMarker => application_status = "REJECTED"
       /\ (~HasRejectionMarker /\ HasHiredMarker) => application_status = "HIRED"
       /\ (~HasRejectionMarker /\ ~HasHiredMarker /\ StageTableMatches # {})
          => \E i \in StageTableMatches :
                application_status = APPLICATION_STATUS_MAP[i][2]
       /\ (~HasRejectionMarker /\ ~HasHiredMarker /\ StageTableMatches = {})
          => application_status = "APPLIED"

\* Reached: an application with rejected_at set, a hired status and the stage
\* "Interview" has been given REJECTED.
C11_Witness ==
    /\ na_pc = "done"
    /\ HasRejectionMarker
    /\ raw_app.status = JStr("hired")
    /\ raw_app.current_stage.name = JStr("Interview")
    /\ application_status = "REJECTED"

\* The first location of _extract_location's fallback chain that the payload
\* has: the named offices, the location object's name, the location string.
NamedOffices ==
    SelectSeq(raw_job.offices.names, LAMBDA o : o.t = "str" /\ o.s # "")

\* C12: _extract_location always returns a non-empty string: the named
\* offices joined with ", " in payload order; with no named office the
\* location object's name; else the location string; else "Remote".
C12_LocationTotalNonEmpty ==
    (nj_pc = "done" /\ provider = "greenhouse")
    => LET location == greenhouse_extract_location(raw_job)
       IN /\ location.t = "str"
          /\ location.s # ""
          /\ Len(NamedOffices) > 0
             => location.s = join([i \in 1..Len(NamedOffices) |-> NamedOffices[i].s])

(***************************************************************************)
(*                    Claims: adapter operations                           *)
(***************************************************************************)
\* The last operation has ended, and it was op.
Ended(op) == ad_pc = "ready" /\ last_op.op = op /\ last_op.result.tag # "none"

\* C13: create_candidate of every adapter either raises or returns a
\* CandidateResponse whose candidate_id and application_id are both non-empty;
\* a Greenhouse response without an application or without a candidate id
\* never gives a returned CandidateResponse.
C13_CreateCandidateNeverPartial ==
    (Ended("create_candidate") /\ last_op.result.tag = "return")
    => /\ last_op.result.candidate.candidate_id # ""
       /\ last_op.result.candidate.application_id # ""

\* The classes of failure of a client call, read off what the call raised.
CallFailed(call) ==
    /\ call.out.tag = "raise"
    /\ call.out.err.type \in {"ATSAuthenticationError", "ATSRateLimitError", "ATSError",
                              "ATSConnectionError", "RetryableError"}

\* C14: in ZohoRecruitAdapter.create_candidate, once the first call has
\* given a candidate id, a failure of the second call (authentication, rate
\* limit, 4xx, connection failure, timeout or status >= 500 after the retries)
\* raises nothing: the operation returns the created candidate_id with the
\* sentinel application id.
C14_SecondCallFailureDegrades ==
    (/\ Ended("create_candidate")
     /\ ad_provider = "zoho_recruit"
     /\ Len(last_op.calls) = 2
     /\ CallFailed(last_op.calls[2]))
    => /\ last_op.result.tag = "return"
       /\ last_op.result.candidate.candidate_id
              = zoho_json(last_op.calls[1].out.body).records[1].id.s
       /\ last_op.result.candidate.application_id = "MANUAL_ASSOC_REQUIRED"

\* The first call's payload has no record with code SUCCESS: no data, an
\* empty data list, or a first record with another code.
NoSuccessRecord(body) ==
    LET data == zoho_json(body)
    IN \/ data.t = "missing"
       \/ Len(data.records) = 0
       \/ data.records[1].code # JStr("SUCCESS")

\* C15: in ZohoRecruitAdapter.create_candidate, when the first call returns
\* HTTP success with a payload that has no record with code SUCCESS, the
\* operation raises an ATSError and the second call is never sent.
C15_EmbeddedFailureRaises ==
    (/\ ad_pc = "ready"
     /\ last_op.op = "create_candidate"
     /\ ad_provider = "zoho_recruit"
     /\ Len(last_op.calls) >= 1
     /\ last_op.calls[1].out.tag = "return"
     /\ NoSuccessRecord(last_op.calls[1].out.body))
    => /\ last_op.result.tag = "raise"
       /\ last_op.result.err.type = "ATSError"
       /\ Len(last_op.calls) = 1

\* A Zoho operation has started (and may have ended).
ZohoStarted == ad_provider = "zoho_recruit" /\ last_op.op # None

\* The operation started with a cached token more than 60 time units from its
\* expiry.
StartedFresh ==
    /\ last_op.before.access_token # None
    /\ last_op.before.token_expiry - last_op.started_at > 60

\* C16: a Zoho operation sends a token request at its start if and only if no
\* token is cached or the time is >= the recorded expiry minus 60; an
\* operation that starts with a cached token more than 60 time units from
\* expiry sends none and makes its calls with that token.
C16_RefreshOnlyWhenStale ==
    ZohoStarted
    => /\ (last_op.refresh # NoRefresh)
          <=> \/ last_op.before.access_token = None
              \/ last_op.started_at >= last_op.before.token_expiry - 60
       /\ StartedFresh
          => /\ last_op.refresh = NoRefresh
             /\ access_token = last_op.before.access_token
             /\ \A i \in 1..Len(last_op.calls) :
                   last_op.calls[i].auth = "Zoho-oauthtoken " \o last_op.before.access_token

\* Reached: an operation that started 61 time units before the expiry of the
\* cached token has made its call with that token and without a token request.
C16_Witness ==
    /\ ZohoStarted
    /\ last_op.before.access_token # None
    /\ last_op.started_at = last_op.before.token_expiry - 61
    /\ last_op.refresh = NoRefresh
    /\ Len(last_op.calls) >= 1
    /\ last_op.calls[1].auth = "Zoho-oauthtoken " \o last_op.before.access_token

\* The token request was answered with a status other than 200, or with a
\* 200 JSON document without access_token.
RefreshRejected ==
    /\ last_op.refresh.kind = "response"
    /\ \/ last_op.refresh.status_code # 200
       \/ /\ last_op.refresh.content.kind = "json"
          /\ token_json(last_op.refresh.content.doc).access_token.t = "missing"

\* The token request failed in any way: rejected, not sent through, or
\* answered with a body that is not JSON.
RefreshFailed ==
    /\ last_op.refresh # NoRefresh
    /\ \/ RefreshRejected
       \/ last_op.refresh.kind # "response"
       \/ last_op.refresh.content.kind # "json"

\* C17: when the token request of a Zoho operation is rejected, the operation
\* raises an authentication error (health_check reports False); and whenever
\* the token request fails no request goes to the Recruit API in that
\* operation and the cached token, its expiry and the session's Authorization
\* header stay as they were before.
C17_RefreshFailureLeavesState ==
    (ZohoStarted /\ RefreshFailed)
    => /\ ad_pc = "ready"
       /\ last_op.calls = <<>>
       /\ access_token = last_op.before.access_token
       /\ token_expiry = last_op.before.token_expiry
       /\ session_auth = last_op.before.session_auth
       /\ (RefreshRejected /\ last_op.op # "health_check")
          => /\ last_op.result.tag = "raise"
             /\ last_op.result.err.type = "ATSAuthenticationError"
       /\ last_op.op = "health_check"
          => last_op.result.tag = "return" /\ ~last_op.result.healthy

\* Reached: get_jobs on an instance with a cached token near its expiry got a
\* 200 answer without access_token to its token request and raised.
C17_Witness ==
    /\ ZohoStarted
    /\ last_op.op = "get_jobs"
    /\ last_op.before.access_token # None
    /\ last_op.refresh = Ok("token_error")
    /\ last_op.result.tag = "raise"
    /\ access_token = last_op.before.access_token

\* C18: health_check of every adapter never raises; it returns True exactly
\* when its underlying calls succeeded (for Zoho: the token was valid or its
\* request succeeded, and the GET returned), False otherwise.
C18_HealthCheckNeverRaises ==
    Ended("health_check")
    => /\ last_op.result.tag = "return"
       /\ last_op.result.healthy
          <=> /\ ~RefreshFailed
              /\ Len(last_op.calls) = 1
              /\ last_op.calls[1].out.tag = "return"

\* Reached: a health_check whose GET ran out of retries returned False.
C18_Witness ==
    /\ Ended("health_check")
    /\ Len(last_op.calls) = 1
    /\ last_op.calls[1].out.tag = "raise"
    /\ last_op.calls[1].out.err.type = "RetryableError"
    /\ last_op.calls[1].sent = 3
    /\ last_op.result.tag = "return"
    /\ ~last_op.result.healthy

(***************************************************************************)
(*                 Claims: adapter selector, request validation            *)
(***************************************************************************)
\* The last request called get_adapter.
Resolved == last_request.adapter.tag # "none"

\* Two provider names are the same but for letter case.
SameName(a, b) == str_lower(a) = str_lower(b)

ConfiguredName == IF ats_provider_env = None THEN "greenhouse" ELSE ats_provider_env

\* The register_adapter calls made before the last request under the
\* configured name, and the built-in entries under it.
RegisteredUnderConfigured ==
    {i \in 1..Len(last_request.registrations_before) :
        SameName(last_request.registrations_before[i].name, ConfiguredName)}

BuiltInUnderConfigured ==
    {i \in 1..Len(ADAPTER_REGISTRY) : SameName(ADAPTER_REGISTRY[i].name, ConfiguredName)}

Last(S) == CHOOSE i \in S : \A j \in S : j <= i

\* C19: get_adapter returns an instance of the class most recently registered
\* under the configured provider name, compared without regard to letter case
\* (the three built-in entries being there from the start); for a name with
\* no entry it raises an error whose message lists the supported names and
\* constructs no adapter; the registry holds the built-in names and the
\* registered ones, whatever requests were served.
C19_SelectorResolvesLatestRegistration ==
    Resolved
    => /\ {registry[i].name : i \in 1..Len(registry)}
            = {ADAPTER_REGISTRY[i].name : i \in 1..Len(ADAPTER_REGISTRY)}
              \cup {str_lower(registrations[i].name) : i \in 1..Len(registrations)}
       /\ IF RegisteredUnderConfigured # {}
          THEN /\ last_request.adapter.tag = "return"
               /\ last_request.adapter.adapter_class
                    = last_request.registrations_before[Last(RegisteredUnderConfigured)]
                          .adapter_class
          ELSE IF BuiltInUnderConfigured # {}
          THEN /\ last_request.adapter.tag = "return"
               /\ last_request.adapter.adapter_class
                    = ADAPTER_REGISTRY[Last(BuiltInUnderConfigured)].adapter_class
          ELSE /\ last_request.adapter.tag = "raise"
               /\ \A i \in 1..Len(ADAPTER_REGISTRY) :
                     contains(ADAPTER_REGISTRY[i].name, last_request.adapter.err.message)
               /\ \A i \in 1..Len(last_request.registrations_before) :
                     contains(str_lower(last_request.registrations_before[i].name),
                              last_request.adapter.err.message)
       /\ last_request.adapter.tag = "return"
          => /\ Len(constructed) >= 1
             /\ constructed[Len(constructed)] = last_request.adapter.adapter_class
       /\ last_request.adapter.tag = "raise"
          => constructed = last_request.constructed_before

\* Reached: with ATS_PROVIDER=Greenhouse, after register_adapter("GREENHOUSE",
\* MockAdapter), get_adapter has returned a MockAdapter.
C19_Witness ==
    /\ last_request.kind = "get_adapter"
    /\ ats_provider_env = "Greenhouse"
    /\ Len(last_request.registrations_before) >= 1
    /\ \E i \in 1..Len(last_request.registrations_before) :
          last_request.registrations_before[i] = RegistryEntry("GREENHOUSE", "MockAdapter")
    /\ last_request.adapter.tag = "return"
    /\ last_request.adapter.adapter_class = "MockAdapter"
    /\ constructed[Len(constructed)] = "MockAdapter"

\* The request is one that validation rejects: no (or an empty) job_id for
\* the applications handler; no body, invalid JSON or missing required fields
\* for the candidates handler.
JobIdMissingOrEmpty ==
    /\ last_request.kind = "get_applications"
    /\ \/ last_request.event.query.t # "dict"
       \/ last_request.event.query.job_id \in {JMissing, JStr("")}

BodyRejected ==
    /\ last_request.kind = "create_candidate"
    /\ \/ last_request.event.body.t \in {"missing", "null"}
       \/ last_request.event.body.doc \in {"", "not valid json", "{}", "name_only"}

\* C20: the applications handler with a missing or empty job_id, and the
\* candidates handler with a missing body, invalid JSON or missing required
\* fields, return 400 VALIDATION_ERROR without resolving an adapter and without
\* any provider call.
C20_ValidationPrecedesProvider ==
    (JobIdMissingOrEmpty \/ BodyRejected)
    => /\ last_request.response.statusCode = 400
       /\ last_request.response.error = "VALIDATION_ERROR"
       /\ last_request.adapter = NoAdapter
       /\ last_request.provider_calls = 0
       /\ constructed = last_request.constructed_before

\* Reached: the applications handler got an empty job_id and answered 400
\* without resolving an adapter.
C20_Witness ==
    /\ last_request.kind = "get_applications"
    /\ last_request.event.query = Query("dict", JStr(""))
    /\ last_request.response.statusCode = 400
    /\ last_request.adapter = NoAdapter

(***************************************************************************)
(*                    Claims: the boundary of the service                  *)
(***************************************************************************)
\* The error kinds of the taxonomy, as the payload names them.
TaxonomyKinds ==
    {"VALIDATION_ERROR", "ATS_CONNECTION_ERROR", "ATS_AUTHENTICATION_ERROR",
     "ATS_RATE_LIMIT_ERROR", "ATS_NOT_FOUND", "ATS_SERVICE_ERROR"}

\* The adapter operation of the last request failed because the retries of a
\* Transport call were exhausted.
RetriesExhausted ==
    /\ last_report.result.tag = "raise"
    /\ last_report.result.err.type = "RetryableError"
    /\ \E i \in 1..Len(last_report.sent) : last_report.sent[i] = StopAfterAttempt

\* C21: a failure inside an adapter operation, exhausted Transport retries
\* among them, is reported by the handler as a structured failure whose error
\* kind is one of Validation, Connection, Authentication, RateLimit, NotFound
\* and ServiceError.
C21_FailuresReportedInTaxonomy ==
    RetriesExhausted
    => /\ last_report.response.statusCode >= 400
       /\ last_report.response.error \in TaxonomyKinds

\* Two exchanges that differ at most in the body of the response.
SameButBody(x, y) ==
    /\ x.kind = y.kind
    /\ x.status_code = y.status_code
    /\ x.retry_after = y.retry_after
    /\ x.content.kind = y.content.kind

\* The body of the first answer carries a record with the provider's message.
EmbeddedMessage(report) ==
    /\ report.provider = "zoho_recruit"
    /\ report.script[1].kind = "response"
    /\ Len(zoho_json(report.script[1].content.doc).records) > 0

\* The last two requests are the same request, answered alike by the provider
\* except for the message embedded in the response body, and both failed with
\* the same error kind.
SameFailureButBody ==
    /\ EmbeddedMessage(prev_report)
    /\ EmbeddedMessage(last_report)
    /\ prev_report.provider = last_report.provider
    /\ prev_report.candidate = last_report.candidate
    /\ \A i \in 1..StopAfterAttempt :
          /\ SameButBody(prev_report.script[i], last_report.script[i])
          /\ SameButBody(prev_report.script2[i], last_report.script2[i])
    /\ prev_report.result.tag = "raise"
    /\ last_report.result.tag = "raise"
    /\ prev_report.response.error = last_report.response.error

\* C22: two failures of the same error kind that differ only in the message
\* the provider embedded in its response body give the caller the same
\* payload: error, message and retryable.
C22_PayloadIndependentOfProviderDetail ==
    SameFailureButBody
    => /\ prev_report.response.error = last_report.response.error
       /\ prev_report.response.message = last_report.response.message
       /\ prev_report.response.retryable = last_report.response.retryable

(***************************************************************************)
(*                       Claims: name extraction                           *)
(***************************************************************************)
\* The positions of the name that hold a character that is not whitespace.
Inked == {i \in 1..Len(full_name) : ~is_space(SubSeq(full_name, i, i))}

\* The first whitespace-separated token of the name: from its first character
\* that is not whitespace up to the next whitespace or the end.
FirstTokenStart == CHOOSE i \in Inked : \A j \in Inked : i <= j

FirstTokenEnd ==
    CHOOSE i \in Inked :
        /\ \A j \in FirstTokenStart..i : j \in Inked
        /\ (i + 1) \notin Inked

\* The name has exactly one token.
SingleToken == Inked # {} /\ \A j \in Inked : j <= FirstTokenEnd

\* A string without any character that is not whitespace.
IsBlank(text) == \A i \in 1..Len(text) : is_space(SubSeq(text, i, i))

\* C23: for a non-empty name, Greenhouse's first name is the first
\* whitespace-separated token, and its last name holds the remaining tokens
\* with single blanks between them (it is empty for a single token); the
\* Last_Name sent to Zoho is never blank.
C23_NameExtraction ==
    (nm_pc = "done" /\ Inked # {})
    => /\ nm_provider = "greenhouse"
          => /\ extracted.first_name
                  = SubSeq(full_name, FirstTokenStart, FirstTokenEnd)
             /\ SingleToken <=> extracted.last_name = ""
             /\ extracted.last_name
                  = join_blank(Tail(split(full_name)))
       /\ nm_provider = "zoho_recruit"
          => ~IsBlank(extracted.last_name)

(***************************************************************************)
(*                 Claims: the Greenhouse stage table                      *)
(***************************************************************************)
\* The entry of the stage table declared first among those that match.
FirstStageTableMatch ==
    CHOOSE i \in StageTableMatches : \A j \in StageTableMatches : i <= j

\* The matching entries do not all give the same status.
StageTableMatchesDisagree ==
    \E i, j \in StageTableMatches :
        APPLICATION_STATUS_MAP[i][2] # APPLICATION_STATUS_MAP[j][2]

\* C24: with neither the rejection marker nor the hired marker, the status is
\* that of the first entry of APPLICATION_STATUS_MAP, in declaration order,
\* whose pattern occurs in the lower-cased stage name, and APPLIED when no
\* entry matches.
C24_StageTableFirstMatch ==
    (na_pc = "done" /\ ~HasRejectionMarker /\ ~HasHiredMarker)
    => application_status
         = IF StageTableMatches = {} THEN "APPLIED"
           ELSE APPLICATION_STATUS_MAP[FirstStageTableMatch][2]

\* Reached: the stage "Offer Rejected" matches "offer" (SCREENING) and
\* "rejected" (REJECTED), and the application has been given SCREENING.
C24_Witness ==
    /\ na_pc = "done"
    /\ ~HasRejectionMarker
    /\ ~HasHiredMarker
    /\ raw_app.current_stage.name = JStr("Offer Rejected")
    /\ StageTableMatchesDisagree
    /\ application_status = "SCREENING"

(***************************************************************************)
(*            Claims: pagination failures, parameters, warning             *)
(***************************************************************************)
\* A fetch_func call gave no page: it raised.
FetchRaised == Len(fetch_calls) > Len(pages)

\* C25: when fetch_func raises on page k, paginate ends with an error that
\* fetch_func raised, page k is the last fetch, and the items of pages 1..k-1
\* are not returned.
C25_MidPaginationFailureAborts ==
    FetchRaised
    => /\ pg_pc = "raised"
       /\ pg_error \in FetchErrors
       /\ Len(fetch_calls) = Len(pages) + 1
       /\ page_count = Len(fetch_calls)
       /\ pg_result = <<>>
       /\ ~ENABLED PaginateFetch

\* Reached: two pages with items were fetched, the third fetch ended with the
\* RetryableError of exhausted retries, and paginate raised it.
C25_Witness ==
    /\ pg_pc = "raised"
    /\ Len(pages) = 2
    /\ Len(fetch_calls) = 3
    /\ Len(all_items) >= 2
    /\ pg_error.type = "RetryableError"
    /\ pg_result = <<>>

\* The values a key has in a query string, in order.
QueryValues(query, key) ==
    LET own == SelectSeq(query, LAMBDA kv : kv[1] = key)
    IN [i \in 1..Len(own) |-> own[i][2]]

QueryKeys(query) == {query[i][1] : i \in 1..Len(query)}

\* The parameters fetch i received are those of the query string, a key with
\* one value as a scalar and a key with several as a list, and per_page as
\* the default page size if the query string has none.
ParamsOfQuery(received, query) ==
    /\ DOMAIN received = QueryKeys(query) \cup {"per_page"}
    /\ \A key \in QueryKeys(query) :
          received[key] = IF Len(QueryValues(query, key)) = 1
                          THEN StrValue(QueryValues(query, key)[1])
                          ELSE ListValue(QueryValues(query, key))
    /\ "per_page" \notin QueryKeys(query) => received["per_page"] = IntValue(page_size)

\* C26: the first fetch receives the caller's initial parameters, with
\* per_page set to the default page size only if the caller gave none; every
\* later fetch receives exactly the decoded query parameters of the previous
\* page's next URL, with per_page defaulted only if that URL has none.
C26_FetchParameters ==
    /\ Len(fetch_calls) >= 1
       => /\ DOMAIN fetch_calls[1] = DOMAIN initial_params \cup {"per_page"}
          /\ \A key \in DOMAIN initial_params : fetch_calls[1][key] = initial_params[key]
          /\ "per_page" \notin DOMAIN initial_params
             => fetch_calls[1]["per_page"] = IntValue(page_size)
    /\ \A i \in 2..Len(fetch_calls) :
          ParamsOfQuery(fetch_calls[i], get_next_page_url(pages[i - 1].headers).query)

\* Reached: the caller gave per_page 100 and status open; the first page's
\* next URL was ?id=7&page=4&id=8, and the second fetch received id as the
\* list of both values, page as a scalar, the default per_page and no status.
C26_Witness ==
    /\ Len(fetch_calls) >= 2
    /\ "status" \in DOMAIN initial_params
    /\ get_next_page_url(pages[1].headers) = UrlIds
    /\ DOMAIN fetch_calls[2] = {"id", "page", "per_page"}
    /\ fetch_calls[2]["id"] = ListValue(<<"7", "8">>)
    /\ fetch_calls[2]["page"] = StrValue("4")
    /\ fetch_calls[2]["per_page"] = IntValue(100)

\* C28: the max-page warning is recorded only when the listing was truncated,
\* that is when the page fetched at the ceiling still carried a next link.
C28_WarningOnlyWhenTruncated ==
    (pg_pc = "done" /\ warned) => next_url # NoUrl

(***************************************************************************)
(*              Claims: the Zoho session header, the retried POST          *)
(***************************************************************************)
\* C29: on a Zoho adapter used by one caller, whenever a token is cached the
\* session's Authorization header is "Zoho-oauthtoken " followed by that
\* token, and every request sent to the Recruit API is sent while a token is
\* cached, with that header.
C29_SessionHeaderFollowsToken ==
    ad_provider = "zoho_recruit"
    => /\ access_token # None => session_auth = "Zoho-oauthtoken " \o access_token
       /\ access_token = None => session_auth = None
       /\ \A i \in 1..Len(last_op.calls) :
             /\ access_token # None
             /\ last_op.calls[i].auth = "Zoho-oauthtoken " \o access_token
       /\ ad_pc \in {"call", "second_call"} => access_token # None

\* Reached: an operation found the cached token tokA stale, was given tokB,
\* and sent its request with the header of tokB.
C29_Witness ==
    /\ ad_provider = "zoho_recruit"
    /\ last_op.before.access_token = "tokA"
    /\ access_token = "tokB"
    /\ session_auth = "Zoho-oauthtoken tokB"
    /\ Len(last_op.calls) >= 1
    /\ last_op.calls[1].sent >= 1
    /\ last_op.calls[1].auth = "Zoho-oauthtoken tokB"

\* C30: a POST goes through the retry loop of every request: it is sent at
\* most 3 times, and it is sent again only after an attempt that ended in a
\* timeout or a status >= 500; an attempt with any other outcome (2xx, 4xx,
\* 429, 401/403, connection failure) is the last one.
C30_PostResentOnlyAfterRetryable ==
    request.method = "POST"
    => /\ Len(attempts) <= 3
       /\ \A i \in 1..Len(attempts) :
             IF IsRetryableExchange(attempts[i].exchange)
             THEN (i < 3 /\ Terminated) => Len(attempts) > i
             ELSE i = Len(attempts) /\ Terminated

\* Reached: a POST timed out, was answered 503 and then 201: it was sent
\* three times and returned.
C30_Witness ==
    /\ request.method = "POST"
    /\ Len(attempts) = 3
    /\ attempts[1].exchange.kind = "Timeout"
    /\ attempts[2].exchange.status_code = 503
    /\ attempts[3].exchange.status_code = 201
    /\ outcome.tag = "return"

(***************************************************************************)
(*                Claims: concurrent callers of one instance               *)
(***************************************************************************)
\* C27: two callers that run operations at the same time on one shared
\* instance whose token is absent or stale send at most one token request
\* between them, and no request goes to the Recruit API while access_token,
\* token_expiry and the session header do not all come from the same refresh.
C27_ConcurrentRefreshGuarded ==
    /\ Len(token_requests) <= 1
    /\ \A i \in 1..Len(api_requests) : ~api_requests[i].half_updated

====
